---- MODULE Spec2Model ----
(***************************************************************************)
(* Model of the git source-control view contribution of theia:            *)
(* packages/git/src/browser/git-view-contribution.ts.                      *)
(*                                                                         *)
(* GitViewContribution turns every git status event into resource groups   *)
(* of a per-repository ScmProviderImpl (the "provider hub"), resolves the   *)
(* URI to open for a change, and tracks added and removed repositories.     *)
(***************************************************************************)
EXTENDS Integers, Sequences, FiniteSets, TLC

VARIABLES
    started,            \* onStart has run (the handlers are subscribed)
    allRepositories,    \* repositoryProvider.allRepositories: sequence of localUri
    dirtyRepositories,  \* GitViewContribution.dirtyRepositories
    scmProviders,       \* GitViewContribution.scmProviders: sequence of hub references
    scmRepositories,    \* scmService.repositories: sequence of hub references
    hubs,               \* every ScmProviderImpl ever constructed, indexed by its reference
    SCM_GROUP_ID,       \* static GitViewContribution.SCM_GROUP_ID
    stagedChanges,      \* GitViewContribution.stagedChanges (cache)
    mergeChanges,       \* GitViewContribution.mergeChanges (cache)
    inflight,           \* getGroups calls suspended at an await, in start order
    statusBar,          \* ids of the elements the status bar shows
    built,              \* every group getGroup has returned so far, in order (history)
    opened,             \* the last editorManager.open request, if any
    last,               \* the last operation and what it did (history)
    events,             \* number of git events delivered so far
    completed,          \* the refreshes whose then-callback ran, in that order (history)
    selectedRepository, \* repositoryProvider.selectedRepository, if any
    commandLog,         \* the commit commands executed and what they did (history)
    scmService,         \* ScmService as ScmWidget and ScmContribution read it
    scmWidget,          \* the fields of ScmWidget and what it rendered and executed
    scmContribution,    \* ScmContribution: the status-bar entries it set, its disposables
    dialogs,            \* the last call of DialogsMainImpl and what it did (history)
    workspaceVariables, \* WorkspaceVariableContribution, the shell and its widgets
    quickOpenAction     \* the fields of a QuickOpenBaseAction and the last access to it

\* the variables of the components other than the git view contribution
otherVars == <<scmService, scmWidget, scmContribution, dialogs, workspaceVariables,
               quickOpenAction>>

vars == <<started, allRepositories, dirtyRepositories, scmProviders, scmRepositories, hubs,
          SCM_GROUP_ID, stagedChanges, mergeChanges, inflight, statusBar, built, opened,
          last, events, completed, selectedRepository, commandLog, scmService, scmWidget,
          scmContribution, dialogs, workspaceVariables, quickOpenAction>>

----------------------------------------------------------------------------
(* Bounds *)

\* longest change list of a status handed to getGroups directly
MaxChanges == 2
\* longest change list of a status carried by a git event
MaxEventChanges == 2
\* git events delivered in one behaviour
MaxEvents == 2
\* getGroups calls that may be suspended at the same time
MaxInflight == 2
\* provider hubs constructed in one behaviour
MaxHubs == 3
\* commit commands executed in one behaviour
MaxCommands == 1

----------------------------------------------------------------------------
(* Values *)

None == <<>>
Some(x) == <<x>>

\* localUri of the repositories the repository provider may report
RepoUris == {"file:///r1", "file:///r2", "file:///r3"}

\* the members of enum GitFileStatus (../common) that getGroups and getUriToOpen
\* tell apart, Modified standing for every other member
FileStatuses == {"New", "Modified", "Conflicted"}

\* change.uri of the files of a working tree, as path segments
FileUris == {<<"r", "a.txt">>, <<"r", "b.txt">>, <<"r", "d", "a.txt">>}

\* ids of the status bar elements of the git view
GIT_REPOSITORY_STATUS == "git-repository-status"
GIT_SYNC_STATUS == "git-sync-status"

\* scheme of the URIs that read a file from the repository (./git-resource)
GIT_RESOURCE_SCHEME == "gitrev"

GitFileChange(U, S) == [uri : U, status : S, staged : BOOLEAN]

SeqsUpTo(S, n) == UNION {[1..k -> S] : k \in 0..n}

Range(s) == {s[i] : i \in DOMAIN s}

\* new URI(change.uri)
URI(uri) == [scheme |-> "file", path |-> uri, query |-> ""]
withScheme(u, scheme) == [u EXCEPT !.scheme = scheme]
withQuery(u, query) == [u EXCEPT !.query = query]
\* URI.displayName: the base name of the path
displayName(u) == u.path[Len(u.path)]
\* DiffUris.encode(left, right, label)
DiffUrisEncode(left, right, label) == [scheme |-> "diff", left |-> left, right |-> right, label |-> label]

----------------------------------------------------------------------------
(* getGroups: the classifier *)

RECURSIVE classifyChangesAllConflicts(_, _)
\* as classifyChanges, without the test `if (!change.staged)` of the Conflicted branch
classifyChangesAllConflicts(changes, acc) ==
    IF changes = <<>> THEN acc
    ELSE LET change == Head(changes)
             next == IF "Conflicted" # change.status
                     THEN IF change.staged
                          THEN [acc EXCEPT !.stagedChanges = Append(@, change)]
                          ELSE [acc EXCEPT !.unstagedChanges = Append(@, change)]
                     ELSE [acc EXCEPT !.mergeChanges = Append(@, change)]
         IN classifyChangesAllConflicts(Tail(changes), next)

RECURSIVE classifyChanges(_, _)
\* the loop of getGroups over status.changes, acc holding the three local arrays
classifyChanges(changes, acc) ==
    IF changes = <<>> THEN acc
    ELSE LET change == Head(changes)
             next == IF "Conflicted" # change.status
                     THEN IF change.staged
                          THEN [acc EXCEPT !.stagedChanges = Append(@, change)]
                          ELSE [acc EXCEPT !.unstagedChanges = Append(@, change)]
                     ELSE IF ~change.staged
                          THEN [acc EXCEPT !.mergeChanges = Append(@, change)]
                          ELSE acc
         IN classifyChanges(Tail(changes), next)

\* the buckets getGroups has filled when it reaches its first await;
\* status is None for an undefined status
getBuckets(status) ==
    LET empty == [stagedChanges |-> <<>>, unstagedChanges |-> <<>>, mergeChanges |-> <<>>]
    IN IF status # None THEN classifyChanges(status[1].changes, empty) ELSE empty

----------------------------------------------------------------------------
(* getGroup: one resource group *)

\* the members of enum GitFileStatus (../common)
GitFileStatus == {"New", "Copied", "Modified", "Renamed", "Deleted", "Conflicted"}

\* as getColor, without the case of GitFileStatus.Deleted
getColorNoDeleted(status) ==
    IF status = "New" THEN "var(--theia-success-color0)"
    ELSE IF status = "Conflicted" THEN "var(--theia-error-color0)"
    ELSE "var(--theia-brand-color0)"

\* getColor(status)
getColor(status) ==
    IF status = "New" THEN "var(--theia-success-color0)"
    ELSE IF status = "Deleted" THEN "var(--theia-warn-color0)"
    ELSE IF status = "Conflicted" THEN "var(--theia-error-color0)"
    ELSE "var(--theia-brand-color0)"

\* file names in the order of String.prototype.localeCompare
LocaleOrder == <<"a.txt", "b.txt">>
LocaleRank(name) == CHOOSE i \in DOMAIN LocaleOrder : LocaleOrder[i] = name

\* the comparator `sort` of getGroup: localeCompare of the text from the last '/'
\* of sourceUri.toString()
sort(l, r) == LocaleRank(displayName(l.sourceUri)) - LocaleRank(displayName(r.sourceUri))

RECURSIVE insertSortedBeforeEqual(_, _)
\* as insertSorted, r placed before the elements that compare equal to it
insertSortedBeforeEqual(sorted, r) ==
    IF sorted = <<>> THEN <<r>>
    ELSE IF sort(Head(sorted), r) >= 0 THEN <<r>> \o sorted
    ELSE <<Head(sorted)>> \o insertSortedBeforeEqual(Tail(sorted), r)

RECURSIVE insertSorted(_, _)
\* r is placed after every element that does not compare greater than it
insertSorted(sorted, r) ==
    IF sorted = <<>> THEN <<r>>
    ELSE IF sort(Head(sorted), r) > 0 THEN <<r>> \o sorted
    ELSE <<Head(sorted)>> \o insertSorted(Tail(sorted), r)

RECURSIVE arraySort(_)
\* Array.prototype.sort with the comparator `sort` (a stable sort)
arraySort(rs) ==
    IF rs = <<>> THEN <<>>
    ELSE insertSorted(arraySort(SubSeq(rs, 1, Len(rs) - 1)), rs[Len(rs)])

\* as nextGroupId, the counter left as it is
nextGroupIdStuck(counter) == counter

\* SCM_GROUP_ID ++ : the value of the counter after an id was made of it
nextGroupId(counter) == counter + 1

\* the ScmResource built for one change; its open() closes over the change
scmResource(change) ==
    [sourceUri |-> URI(change.uri), color |-> getColor(change.status), change |-> change]

\* the group getGroup returns once every icon lookup has resolved; counter is the
\* value of SCM_GROUP_ID the id is made of
getGroup(label, provider, changes, counter) ==
    [label |-> label,
     hideWhenEmpty |-> FALSE,
     id |-> <<label, counter>>,
     provider |-> provider,
     resources |-> arraySort([i \in DOMAIN changes |-> scmResource(changes[i])])]

\* as groupSteps, the unstaged bucket taken first
groupStepsUnstagedFirst ==
    << [bucket |-> "unstagedChanges", label |-> "Changes"],
       [bucket |-> "stagedChanges", label |-> "Staged changes"],
       [bucket |-> "mergeChanges", label |-> "Merged Changes"] >>

\* the three `if (bucket.length > 0) groups.push(await this.getGroup(...))` of
\* getGroups, in program order
groupSteps ==
    << [bucket |-> "stagedChanges", label |-> "Staged changes"],
       [bucket |-> "unstagedChanges", label |-> "Changes"],
       [bucket |-> "mergeChanges", label |-> "Merged Changes"] >>

\* as nextStep, without the tests `bucket.length > 0`
nextStepEveryBucket(buckets, k) == IF k <= Len(groupSteps) THEN k ELSE Len(groupSteps) + 1

\* the first step from k on whose bucket is not empty; Len(groupSteps) + 1 when
\* getGroups has no getGroup left to await
nextStep(buckets, k) ==
    LET todo == {j \in k..Len(groupSteps) : Len(buckets[groupSteps[j].bucket]) > 0}
    IN IF todo = {} THEN Len(groupSteps) + 1
       ELSE CHOOSE j \in todo : \A i \in todo : j <= i

RECURSIVE awaitGroups(_, _, _, _, _)
\* getGroups from step k to its return when every icon lookup resolves:
\* the groups returned and the value of SCM_GROUP_ID afterwards
awaitGroups(buckets, provider, k, groups, counter) ==
    LET j == nextStep(buckets, k)
    IN IF j > Len(groupSteps) THEN [groups |-> groups, counter |-> counter]
       ELSE awaitGroups(buckets, provider, j + 1,
                Append(groups, getGroup(groupSteps[j].label, provider,
                                        buckets[groupSteps[j].bucket], counter)),
                nextGroupId(counter))

----------------------------------------------------------------------------
(* getUriToOpen *)

\* this.stagedChanges.find(c => c.uri === change.uri) is truthy
findByUri(changes, uri) == \E i \in DOMAIN changes : changes[i].uri = uri

\* as getUriToOpen, the merge cache consulted before the staged cache
getUriToOpenMergeFirst(change, staged, merge) ==
    LET changeUri == URI(change.uri)
    IN IF change.status # "New"
       THEN IF change.staged
            THEN DiffUrisEncode(withQuery(withScheme(changeUri, GIT_RESOURCE_SCHEME), "HEAD"),
                                withScheme(changeUri, GIT_RESOURCE_SCHEME),
                                <<displayName(changeUri), " (Index)">>)
            ELSE IF findByUri(merge, change.uri)
            THEN changeUri
            ELSE IF findByUri(staged, change.uri)
            THEN DiffUrisEncode(withScheme(changeUri, GIT_RESOURCE_SCHEME),
                                changeUri,
                                <<displayName(changeUri), " (Working tree)">>)
            ELSE DiffUrisEncode(withQuery(withScheme(changeUri, GIT_RESOURCE_SCHEME), "HEAD"),
                                changeUri,
                                <<displayName(changeUri), " (Working tree)">>)
       ELSE IF change.staged
            THEN withScheme(changeUri, GIT_RESOURCE_SCHEME)
            ELSE IF findByUri(staged, change.uri)
            THEN DiffUrisEncode(withScheme(changeUri, GIT_RESOURCE_SCHEME),
                                changeUri,
                                <<displayName(changeUri), " (Working tree)">>)
            ELSE changeUri

getUriToOpen(change, staged, merge) ==
    LET changeUri == URI(change.uri)
    IN IF change.status # "New"
       THEN IF change.staged
            THEN DiffUrisEncode(withQuery(withScheme(changeUri, GIT_RESOURCE_SCHEME), "HEAD"),
                                withScheme(changeUri, GIT_RESOURCE_SCHEME),
                                <<displayName(changeUri), " (Index)">>)
            ELSE IF findByUri(staged, change.uri)
            THEN DiffUrisEncode(withScheme(changeUri, GIT_RESOURCE_SCHEME),
                                changeUri,
                                <<displayName(changeUri), " (Working tree)">>)
            ELSE IF findByUri(merge, change.uri)
            THEN changeUri
            ELSE DiffUrisEncode(withQuery(withScheme(changeUri, GIT_RESOURCE_SCHEME), "HEAD"),
                                changeUri,
                                <<displayName(changeUri), " (Working tree)">>)
       ELSE IF change.staged
            THEN withScheme(changeUri, GIT_RESOURCE_SCHEME)
            ELSE IF findByUri(staged, change.uri)
            THEN DiffUrisEncode(withScheme(changeUri, GIT_RESOURCE_SCHEME),
                                changeUri,
                                <<displayName(changeUri), " (Working tree)">>)
            ELSE changeUri

----------------------------------------------------------------------------
(* State *)

\* the branch name and head of the statuses delivered
Master == <<"m">>
NoHead == <<>>

\* WorkingDirectoryStatus values with the given change lists
Statuses(changeLists) == [branch : {Master}, currentHead : {NoHead}, changes : changeLists]

\* the lists of at most n elements of S that hold no element twice
DistinctSeqsUpTo(S, n) ==
    {s \in SeqsUpTo(S, n) : \A i, j \in DOMAIN s : s[i] = s[j] => i = j}

\* the changes of the statuses handed to getGroups directly
CallChanges == GitFileChange(FileUris, FileStatuses)

\* the changes of the statuses carried by the git events of a repository: one
\* Modified file below its root, staged or not; the git status reports a file at
\* most once in the index and once in the working tree
EventChanges(source) == GitFileChange({<<source, "a.txt">>}, {"Modified"})

\* new ScmProviderImpl('Git', label, uri); _groups is not initialised
ScmProviderImpl(uri) == [rootUri |-> uri, groups |-> None, disposed |-> FALSE]

\* what the last operation did: the status and provider it worked on, the groups it
\* returned or published, the notifications it fired (in order, with what a
\* subscriber reads from the provider inside its handler), the repositories it
\* registered and the hubs it disposed; source and event are the repository and the
\* number of the git event the refresh belongs to, color what getColor returned;
\* buckets are the local arrays of getGroups,
\* published tells that the then-callback of the refresh ran, prev is the operation
\* before it
NoOp ==
    [op |-> "none", prev |-> "none", source |-> None, event |-> 0, status |-> None,
     provider |-> 0,
     buckets |-> [stagedChanges |-> <<>>, unstagedChanges |-> <<>>, mergeChanges |-> <<>>],
     groups |-> <<>>, published |-> FALSE, fired |-> <<>>,
     registered |-> <<>>, disposed |-> <<>>, color |-> None]

\* ScmService with no repository registered
scmServiceNew == [repositories |-> <<>>, selectedRepository |-> None, statusBarCommands |-> <<>>]

\* ScmWidget before it is created: its fields as the field initialisers leave them,
\* subscribed the hubs whose onDidChangeResources the widget listens to, rendered what
\* the last render() returned, validating the results the validator calls under way
\* will resolve to, executed the commands the last handler handed to the command
\* registry, thrown what it threw
scmWidgetNew ==
    [constructed |-> FALSE, selectedRepoUri |-> None, subscribed |-> {},
     updateRequested |-> FALSE, rendered |-> None, message |-> <<>>,
     inputCommandMessageValidationResult |-> None, validating |-> <<>>,
     executed |-> <<>>, thrown |-> None]

\* ScmContribution before onStart: entries are the status-bar elements it has set
\* and that were not removed, statusBarDisposable the ids its collection removes,
\* removed the ids the last updateStatusBar removed
scmContributionNew ==
    [started |-> FALSE, entries |-> {}, statusBarDisposable |-> <<>>, removed |-> {}]

\* the shell with no current widget and the contribution before init: disposed are
\* the widgets disposed so far, connected lists the widget of every
\* resetCurrentWidget slot connected to a disposed signal, toDispose the widgets
\* toDiposeOnUpdateCurrentWidget disconnects from, lastNavigatable the navigatable
\* widget that became the shell's current widget last (history), op the last step
workspaceVariablesNew ==
    [initialized |-> FALSE, shellCurrent |-> None, disposed |-> {}, currentWidget |-> None,
     connected |-> <<>>, toDispose |-> <<>>, lastNavigatable |-> None, op |-> "none"]

\* new QuickOpenBaseAction(id): label '', class '', enabled true, the other fields
\* not assigned (None is undefined); op is the property assigned last, value what
\* was assigned, outcome how the setter ended, read what the getter returns then
quickOpenActionNew ==
    [actionId |-> Some("id"), actionLabel |-> Some(""), actionTooltip |-> None,
     actionCssClass |-> Some(""), actionEnabled |-> Some(TRUE), actionChecked |-> None,
     actionRadio |-> None, op |-> "none", value |-> None, outcome |-> "none", read |-> None]

\* the other components as constructed
OthersConstructed ==
    /\ scmService = scmServiceNew
    /\ scmWidget = scmWidgetNew
    /\ scmContribution = scmContributionNew
    /\ dialogs = None
    /\ workspaceVariables = workspaceVariablesNew
    /\ quickOpenAction = quickOpenActionNew

\* the state after construction, for a list of repositories the provider reports
Constructed(repos) ==
    /\ started = FALSE
    /\ allRepositories = repos
    /\ dirtyRepositories = <<>>
    /\ scmProviders = <<>>
    /\ scmRepositories = <<>>
    /\ hubs = <<>>
    /\ SCM_GROUP_ID = 0
    /\ stagedChanges = <<>>
    /\ mergeChanges = <<>>
    /\ inflight = <<>>
    /\ statusBar = {GIT_REPOSITORY_STATUS, GIT_SYNC_STATUS}
    /\ built = <<>>
    /\ opened = None
    /\ last = NoOp
    /\ events = 0
    /\ completed = <<>>
    /\ selectedRepository = None
    /\ commandLog = <<>>
    /\ OthersConstructed

----------------------------------------------------------------------------
(* getGroups and open, called directly *)

\* getGroups(status, provider) called on the freshly started contribution and run
\* to its return, every icon lookup resolving
CallGetGroups(status, provider) ==
    /\ started
    /\ last.op = "none"
    /\ LET buckets == getBuckets(status)
           res == awaitGroups(buckets, provider, 1, <<>>, SCM_GROUP_ID)
       IN /\ SCM_GROUP_ID' = res.counter
          /\ stagedChanges' = buckets.stagedChanges
          /\ mergeChanges' = buckets.mergeChanges
          /\ last' = [NoOp EXCEPT !.op = "getGroups", !.prev = last.op, !.status = status,
                                  !.provider = provider, !.buckets = buckets,
                                  !.groups = res.groups]
          /\ built' = built \o res.groups
    /\ UNCHANGED otherVars
    /\ UNCHANGED <<started, allRepositories, dirtyRepositories, scmProviders,
                   scmRepositories, hubs, inflight, statusBar, opened, events, completed,
                   selectedRepository, commandLog>>

\* resource.open() of the resource built for change and shown by the hub provider:
\* getUriToOpen against the caches as they are now, then editorManager.open;
\* staged and merge record the caches the call read
Open(change, provider) ==
    /\ started
    /\ opened' = Some([change |-> change, provider |-> provider,
                       uri |-> getUriToOpen(change, stagedChanges, mergeChanges),
                       staged |-> stagedChanges, merge |-> mergeChanges])
    /\ last' = [NoOp EXCEPT !.op = "open", !.prev = last.op]
    /\ UNCHANGED otherVars
    /\ UNCHANGED <<started, allRepositories, dirtyRepositories, scmProviders,
                   scmRepositories, hubs, SCM_GROUP_ID, stagedChanges, mergeChanges,
                   inflight, statusBar, built, events, completed, selectedRepository,
                   commandLog>>

\* getColor(status) called on the freshly started contribution
CallGetColor(status) ==
    /\ started
    /\ last.op = "none"
    /\ last' = [NoOp EXCEPT !.op = "getColor", !.prev = last.op,
                            !.color = Some([status |-> status, color |-> getColor(status)])]
    /\ UNCHANGED otherVars
    /\ UNCHANGED <<started, allRepositories, dirtyRepositories, scmProviders,
                   scmRepositories, hubs, SCM_GROUP_ID, stagedChanges, mergeChanges,
                   inflight, statusBar, built, opened, events, completed,
                   selectedRepository, commandLog>>

\* the contribution started with one repository, whose hub has reference 1
InitCalls ==
    /\ started = TRUE
    /\ allRepositories = <<"file:///r1">>
    /\ dirtyRepositories = <<"file:///r1">>
    /\ scmProviders = <<1>>
    /\ scmRepositories = <<1>>
    /\ hubs = <<ScmProviderImpl("file:///r1")>>
    /\ SCM_GROUP_ID = 0
    /\ stagedChanges = <<>>
    /\ mergeChanges = <<>>
    /\ inflight = <<>>
    /\ statusBar = {GIT_REPOSITORY_STATUS, GIT_SYNC_STATUS}
    /\ built = <<>>
    /\ opened = None
    /\ last = NoOp
    /\ events = 0
    /\ completed = <<>>
    /\ selectedRepository = None
    /\ commandLog = <<>>
    /\ OthersConstructed

NextCalls ==
    \/ \E status \in {None} \cup {Some(st) : st \in Statuses(SeqsUpTo(CallChanges, MaxChanges))} :
          CallGetGroups(status, 1)
    \/ \E change \in CallChanges : Open(change, 1)
    \/ \E status \in GitFileStatus : CallGetColor(status)

\* getGroups, open and getColor applied to every status and every change
SpecCalls == InitCalls /\ [][NextCalls]_vars

----------------------------------------------------------------------------
(* The provider hub: ScmProviderImpl *)

\* get statusBarCommands(): undefined, whatever was fired
statusBarCommands(hub) == None

\* fireChangeStatusBarCommands(commands): the notification a subscriber gets, with
\* what it reads from provider.statusBarCommands in its handler; a disposed
\* emitter delivers nothing
fireChangeStatusBarCommands(hubsNow, provider, commands) ==
    IF hubsNow[provider].disposed THEN <<>>
    ELSE << [kind |-> "statusBarCommands", provider |-> provider, payload |-> commands,
             read |-> statusBarCommands(hubsNow[provider])] >>

\* fireChangeResources(): the notification has no payload; a subscriber reads
\* provider.groups in its handler
fireChangeResources(hubsNow, provider) ==
    IF hubsNow[provider].disposed THEN <<>>
    ELSE << [kind |-> "resources", provider |-> provider, payload |-> None,
             read |-> hubsNow[provider].groups] >>

\* as thenCallback, the notifications fired before provider.groups is set
thenCallbackFiresFirst(hubsNow, provider, groups, command) ==
    [hubs |-> [hubsNow EXCEPT ![provider].groups = Some(groups)],
     fired |-> fireChangeStatusBarCommands(hubsNow, provider, <<command>>)
               \o fireChangeResources(hubsNow, provider)]

\* the then-callback of the refresh: set provider.groups, fire the checkout
\* command, fire the resources change
thenCallback(hubsNow, provider, groups, command) ==
    LET assigned == [hubsNow EXCEPT ![provider].groups = Some(groups)]
    IN [hubs |-> assigned,
        fired |-> fireChangeStatusBarCommands(assigned, provider, <<command>>)
                  \o fireChangeResources(assigned, provider)]

----------------------------------------------------------------------------
(* The repository set tracker *)

\* Array.prototype.find over the indices whose elements satisfy the predicate: the
\* first of them, 0 if there is none
FindFirst(hits) == IF hits = {} THEN 0 ELSE CHOOSE i \in hits : \A j \in hits : i <= j

\* Array.prototype.splice(index, 1)
Splice(s, index) == SubSeq(s, 1, index - 1) \o SubSeq(s, index + 1, Len(s))

\* the fields registerScmProvider and checkNewOrRemovedRepositories work on
Tracked ==
    [dirtyRepositories |-> dirtyRepositories, scmProviders |-> scmProviders,
     scmRepositories |-> scmRepositories, hubs |-> hubs,
     registered |-> <<>>, disposed |-> <<>>]

\* scmService.registerScmProvider(provider): the service lists a repository for it
serviceRegisterScmProvider(repositories, provider) == Append(repositories, provider)

\* ScmRepository.dispose() of the repository at index: it leaves the service's list
serviceDispose(repositories, index) == Splice(repositories, index)

\* registerScmProvider(repository)
registerScmProvider(t, uri) ==
    LET provider == Len(t.hubs) + 1
    IN [t EXCEPT !.hubs = Append(@, ScmProviderImpl(uri)),
                 !.scmProviders = Append(@, provider),
                 !.scmRepositories = serviceRegisterScmProvider(@, provider),
                 !.registered = Append(@, uri)]

\* as findAdded, every reported repository taken for a new one
findAddedAny(dirty, repos) == IF repos = <<>> THEN 0 ELSE 1

\* allRepositories.find(repo => dirtyRepositories.every(dirtyRepo =>
\* dirtyRepo.localUri !== repo.localUri)), as an index into repos, 0 for undefined
findAdded(dirty, repos) ==
    FindFirst({r \in DOMAIN repos : \A i \in DOMAIN dirty : dirty[i] # repos[r]})

\* dirtyRepositories.find(dirtyRepo => allRepositories.every(repo =>
\* repo.localUri !== dirtyRepo.localUri)), as an index into dirty, 0 for undefined
findRemoved(dirty, repos) ==
    FindFirst({d \in DOMAIN dirty : \A i \in DOMAIN repos : repos[i] # dirty[d]})

\* as checkNewOrRemovedRepositories, without the assignment of dirtyRepositories
checkNewOrRemovedRepositoriesKeepsDirty(t, repos) ==
    LET added == findAdded(t.dirtyRepositories, repos)
        t1 == IF added # 0 THEN registerScmProvider(t, repos[added]) ELSE t
        removed == findRemoved(t.dirtyRepositories, repos)
        removedScmRepo ==
            IF removed = 0 THEN 0
            ELSE FindFirst({r \in DOMAIN t1.scmRepositories :
                              t1.hubs[t1.scmRepositories[r]].rootUri
                                = t.dirtyRepositories[removed]})
        t2 == IF removedScmRepo # 0
              THEN LET provider == t1.scmRepositories[removedScmRepo]
                       index == FindFirst({k \in DOMAIN t1.scmProviders :
                                             t1.scmProviders[k] = provider})
                   IN [t1 EXCEPT !.scmRepositories = serviceDispose(@, removedScmRepo),
                                 !.hubs[provider].disposed = TRUE,
                                 !.disposed = Append(@, provider),
                                 !.scmProviders = IF index > 0 THEN Splice(@, index) ELSE @]
              ELSE t1
    IN t2

\* checkNewOrRemovedRepositories(), repos being repositoryProvider.allRepositories
checkNewOrRemovedRepositories(t, repos) ==
    LET added == findAdded(t.dirtyRepositories, repos)
        t1 == IF added # 0 THEN registerScmProvider(t, repos[added]) ELSE t
        removed == findRemoved(t.dirtyRepositories, repos)
        removedScmRepo ==
            IF removed = 0 THEN 0
            ELSE FindFirst({r \in DOMAIN t1.scmRepositories :
                              t1.hubs[t1.scmRepositories[r]].rootUri
                                = t.dirtyRepositories[removed]})
        t2 == IF removedScmRepo # 0
              THEN LET provider == t1.scmRepositories[removedScmRepo]
                       index == FindFirst({k \in DOMAIN t1.scmProviders :
                                             t1.scmProviders[k] = provider})
                   IN [t1 EXCEPT !.scmRepositories = serviceDispose(@, removedScmRepo),
                                 !.hubs[provider].disposed = TRUE,
                                 !.disposed = Append(@, provider),
                                 !.scmProviders = IF index > 0 THEN Splice(@, index) ELSE @]
              ELSE t1
    IN [t2 EXCEPT !.dirtyRepositories = repos]

RECURSIVE registerAll(_, _)
\* allRepositories.forEach(repository => this.registerScmProvider(repository))
registerAll(t, repos) ==
    IF repos = <<>> THEN t
    ELSE registerAll(registerScmProvider(t, Head(repos)), Tail(repos))

\* onStart(): a hub for every repository, then the handlers are subscribed
OnStart ==
    /\ ~started
    /\ LET t == registerAll(Tracked, allRepositories)
       IN /\ hubs' = t.hubs
          /\ scmProviders' = t.scmProviders
          /\ scmRepositories' = t.scmRepositories
          /\ dirtyRepositories' = allRepositories
          /\ last' = [NoOp EXCEPT !.op = "onStart", !.prev = last.op, !.registered = t.registered]
    /\ started' = TRUE
    /\ UNCHANGED otherVars
    /\ UNCHANGED <<allRepositories, SCM_GROUP_ID, stagedChanges, mergeChanges, inflight,
                   statusBar, built, opened, events, completed, selectedRepository,
                   commandLog>>

\* the repository provider reports one more repository
AddRepository(uri) ==
    /\ started
    /\ \A i \in DOMAIN allRepositories : allRepositories[i] # uri
    /\ allRepositories' = Append(allRepositories, uri)
    /\ last' = [NoOp EXCEPT !.op = "addRepository", !.prev = last.op]
    /\ UNCHANGED otherVars
    /\ UNCHANGED <<started, dirtyRepositories, scmProviders, scmRepositories, hubs,
                   SCM_GROUP_ID, stagedChanges, mergeChanges, inflight, statusBar, built,
                   opened, events, completed, selectedRepository, commandLog>>

\* the repository provider no longer reports a repository
RemoveRepository(uri) ==
    /\ started
    /\ \E i \in DOMAIN allRepositories :
          /\ allRepositories[i] = uri
          /\ allRepositories' = Splice(allRepositories, i)
    /\ last' = [NoOp EXCEPT !.op = "removeRepository", !.prev = last.op]
    /\ UNCHANGED otherVars
    /\ UNCHANGED <<started, dirtyRepositories, scmProviders, scmRepositories, hubs,
                   SCM_GROUP_ID, stagedChanges, mergeChanges, inflight, statusBar, built,
                   opened, events, completed, selectedRepository, commandLog>>

----------------------------------------------------------------------------
(* The git event handler and the refresh it starts *)

\* changes.some(c => c.status === GitFileStatus.Conflicted)
hasConflicts(changes) == \E i \in DOMAIN changes : changes[i].status = "Conflicted"

\* !changes.some(c => !c.staged)
allStaged(changes) == ~(\E i \in DOMAIN changes : ~changes[i].staged)

\* the branch label of the handler; strings are sequences of characters
branchLabel(status) ==
    IF status.branch # <<>> THEN status.branch
    ELSE IF status.currentHead # <<>>
         THEN SubSeq(status.currentHead, 1, IF Len(status.currentHead) < 8
                                            THEN Len(status.currentHead) ELSE 8)
         ELSE <<"N", "O", "-", "H", "E", "A", "D">>

\* as dirtyMarker, allStaged tested before hasConflicts
dirtyMarkerStagedFirst(status) ==
    IF Len(status.changes) > 0
    THEN LET conflicts == hasConflicts(status.changes)
             staged == allStaged(status.changes)
         IN IF conflicts \/ staged
            THEN IF staged THEN "+" ELSE IF conflicts THEN "!" ELSE ""
            ELSE "*"
    ELSE ""

\* the dirty marker of the handler
dirtyMarker(status) ==
    IF Len(status.changes) > 0
    THEN LET conflicts == hasConflicts(status.changes)
             staged == allStaged(status.changes)
         IN IF conflicts \/ staged
            THEN IF conflicts THEN "!" ELSE IF staged THEN "+" ELSE ""
            ELSE "*"
    ELSE ""

\* the status bar command the then-callback fires
checkoutCommand(status) ==
    [id |-> "git.checkout",
     text |-> <<"$(code-fork) ", branchLabel(status), dirtyMarker(status)>>,
     command |-> "git.checkout"]

\* what getStatusBarEntry() may return: undefined or an entry
SyncEntries == {None, Some([text |-> "$(refresh)", command |-> "git.sync"])}

\* the command updateSyncStatusBarEntry fires for an entry
syncCommand(entry) ==
    [id |-> "vcs-sync-status", text |-> entry.text, command |-> entry.command]

\* this.scmProviders.find(provider => provider.rootUri === uri), as an index into
\* scmProviders, 0 for undefined
findProvider(t, uri) ==
    FindFirst({k \in DOMAIN t.scmProviders : t.hubs[t.scmProviders[k]].rootUri = uri})

\* the handler of repositoryTracker.onGitEvent for an event of repository source
\* with the given status; entry is what getStatusBarEntry() returns.
\* A getGroups call with no group to build returns without suspending, and its
\* then-callback runs right after the handler.
GitEvent(source, status, entry) ==
    /\ started
    /\ events < MaxEvents
    /\ Len(inflight) < MaxInflight
    /\ Len(checkNewOrRemovedRepositories(Tracked, allRepositories).hubs) <= MaxHubs
    /\ events' = events + 1
    /\ LET t == checkNewOrRemovedRepositories(Tracked, allRepositories)
           scmProvider == findProvider(t, source)
           provider == IF scmProvider = 0 THEN 0 ELSE t.scmProviders[scmProvider]
           buckets == getBuckets(Some(status))
           first == nextStep(buckets, 1)
           returns == provider # 0 /\ first > Len(groupSteps)
           syncProvider == IF entry = None THEN 0
                           ELSE findProvider(t, source)
           syncFired == IF syncProvider = 0 THEN <<>>
                        ELSE fireChangeStatusBarCommands(t.hubs, t.scmProviders[syncProvider],
                                                         <<syncCommand(entry[1])>>)
           then == IF returns THEN thenCallback(t.hubs, provider, <<>>, checkoutCommand(status))
                   ELSE [hubs |-> t.hubs, fired |-> <<>>]
       IN /\ dirtyRepositories' = t.dirtyRepositories
          /\ scmProviders' = t.scmProviders
          /\ scmRepositories' = t.scmRepositories
          /\ hubs' = then.hubs
          /\ inflight' = IF provider # 0 /\ ~returns
                         THEN Append(inflight, [provider |-> provider, status |-> status,
                                                buckets |-> buckets, step |-> first,
                                                groups |-> <<>>, source |-> source,
                                                event |-> events + 1])
                         ELSE inflight
          /\ completed' = IF returns
                          THEN Append(completed, [event |-> events + 1, provider |-> provider,
                                                  buckets |-> buckets, groups |-> <<>>])
                          ELSE completed
          /\ stagedChanges' = IF returns THEN buckets.stagedChanges ELSE stagedChanges
          /\ mergeChanges' = IF returns THEN buckets.mergeChanges ELSE mergeChanges
          /\ statusBar' = IF entry = None THEN statusBar \ {GIT_SYNC_STATUS} ELSE statusBar
          /\ last' = [NoOp EXCEPT !.op = "gitEvent", !.prev = last.op, !.status = Some(status),
                                  !.source = Some(source), !.event = events + 1,
                                  !.provider = provider,
                                  !.buckets = IF provider # 0 THEN buckets ELSE @,
                                  !.published = returns,
                                  !.fired = syncFired \o then.fired,
                                  !.registered = t.registered,
                                  !.disposed = t.disposed]
    /\ UNCHANGED otherVars
    /\ UNCHANGED <<started, allRepositories, SCM_GROUP_ID, built, opened, selectedRepository,
                   commandLog>>

\* as IconsResolve, a refresh that completes cancelling the other suspended refreshes
\* of its hub
IconsResolveCancels(i) ==
    /\ i \in DOMAIN inflight
    /\ LET call == inflight[i]
           group == getGroup(groupSteps[call.step].label, call.provider,
                             call.buckets[groupSteps[call.step].bucket], SCM_GROUP_ID)
           groups == Append(call.groups, group)
           next == nextStep(call.buckets, call.step + 1)
           returns == next > Len(groupSteps)
           then == IF returns
                   THEN thenCallback(hubs, call.provider, groups, checkoutCommand(call.status))
                   ELSE [hubs |-> hubs, fired |-> <<>>]
       IN /\ SCM_GROUP_ID' = nextGroupId(SCM_GROUP_ID)
          /\ built' = Append(built, group)
          /\ inflight' = IF returns
                         THEN SelectSeq(Splice(inflight, i),
                                        LAMBDA c : c.provider # call.provider)
                         ELSE [inflight EXCEPT ![i].groups = groups, ![i].step = next]
          /\ stagedChanges' = IF returns THEN call.buckets.stagedChanges ELSE stagedChanges
          /\ mergeChanges' = IF returns THEN call.buckets.mergeChanges ELSE mergeChanges
          /\ hubs' = then.hubs
          /\ completed' = IF returns
                          THEN Append(completed, [event |-> call.event, provider |-> call.provider,
                                                  buckets |-> call.buckets, groups |-> groups])
                          ELSE completed
          /\ last' = [NoOp EXCEPT !.op = "iconsResolve", !.prev = last.op,
                                  !.source = Some(call.source), !.event = call.event,
                                  !.status = Some(call.status),
                                  !.provider = call.provider, !.buckets = call.buckets,
                                  !.groups = groups, !.published = returns,
                                  !.fired = then.fired]
    /\ UNCHANGED otherVars
    /\ UNCHANGED <<started, allRepositories, dirtyRepositories, scmProviders,
                   scmRepositories, statusBar, opened, events, selectedRepository,
                   commandLog>>

\* as IconsResolve, the caches written only by a refresh that started after every
\* completed one
IconsResolveKeepsNewer(i) ==
    /\ i \in DOMAIN inflight
    /\ LET call == inflight[i]
           group == getGroup(groupSteps[call.step].label, call.provider,
                             call.buckets[groupSteps[call.step].bucket], SCM_GROUP_ID)
           groups == Append(call.groups, group)
           next == nextStep(call.buckets, call.step + 1)
           returns == next > Len(groupSteps)
           then == IF returns
                   THEN thenCallback(hubs, call.provider, groups, checkoutCommand(call.status))
                   ELSE [hubs |-> hubs, fired |-> <<>>]
       IN /\ SCM_GROUP_ID' = nextGroupId(SCM_GROUP_ID)
          /\ built' = Append(built, group)
          /\ inflight' = IF returns THEN Splice(inflight, i)
                         ELSE [inflight EXCEPT ![i].groups = groups, ![i].step = next]
          /\ stagedChanges' = IF returns /\ \A k \in DOMAIN completed : completed[k].event < call.event
                              THEN call.buckets.stagedChanges ELSE stagedChanges
          /\ mergeChanges' = IF returns /\ \A k \in DOMAIN completed : completed[k].event < call.event
                             THEN call.buckets.mergeChanges ELSE mergeChanges
          /\ hubs' = then.hubs
          /\ completed' = IF returns
                          THEN Append(completed, [event |-> call.event, provider |-> call.provider,
                                                  buckets |-> call.buckets, groups |-> groups])
                          ELSE completed
          /\ last' = [NoOp EXCEPT !.op = "iconsResolve", !.prev = last.op,
                                  !.source = Some(call.source), !.event = call.event,
                                  !.status = Some(call.status),
                                  !.provider = call.provider, !.buckets = call.buckets,
                                  !.groups = groups, !.published = returns,
                                  !.fired = then.fired]
    /\ UNCHANGED otherVars
    /\ UNCHANGED <<started, allRepositories, dirtyRepositories, scmProviders,
                   scmRepositories, statusBar, opened, events, selectedRepository,
                   commandLog>>

\* every icon lookup of the getGroup call that the i-th suspended getGroups awaits
\* has resolved: the group gets its id and is pushed; after the last group getGroups
\* sets the caches and returns, and the then-callback publishes
IconsResolve(i) ==
    /\ i \in DOMAIN inflight
    /\ LET call == inflight[i]
           group == getGroup(groupSteps[call.step].label, call.provider,
                             call.buckets[groupSteps[call.step].bucket], SCM_GROUP_ID)
           groups == Append(call.groups, group)
           next == nextStep(call.buckets, call.step + 1)
           returns == next > Len(groupSteps)
           then == IF returns
                   THEN thenCallback(hubs, call.provider, groups, checkoutCommand(call.status))
                   ELSE [hubs |-> hubs, fired |-> <<>>]
       IN /\ SCM_GROUP_ID' = nextGroupId(SCM_GROUP_ID)
          /\ built' = Append(built, group)
          /\ inflight' = IF returns THEN Splice(inflight, i)
                         ELSE [inflight EXCEPT ![i].groups = groups, ![i].step = next]
          /\ stagedChanges' = IF returns THEN call.buckets.stagedChanges ELSE stagedChanges
          /\ mergeChanges' = IF returns THEN call.buckets.mergeChanges ELSE mergeChanges
          /\ hubs' = then.hubs
          /\ completed' = IF returns
                          THEN Append(completed, [event |-> call.event, provider |-> call.provider,
                                                  buckets |-> call.buckets, groups |-> groups])
                          ELSE completed
          /\ last' = [NoOp EXCEPT !.op = "iconsResolve", !.prev = last.op,
                                  !.source = Some(call.source), !.event = call.event,
                                  !.status = Some(call.status),
                                  !.provider = call.provider, !.buckets = call.buckets,
                                  !.groups = groups, !.published = returns,
                                  !.fired = then.fired]
    /\ UNCHANGED otherVars
    /\ UNCHANGED <<started, allRepositories, dirtyRepositories, scmProviders,
                   scmRepositories, statusBar, opened, events, selectedRepository,
                   commandLog>>

\* as IconRejects, the groups built so far published all the same
IconRejectsPublishes(i) ==
    /\ i \in DOMAIN inflight
    /\ inflight' = Splice(inflight, i)
    /\ LET call == inflight[i]
           then == thenCallback(hubs, call.provider, call.groups, checkoutCommand(call.status))
       IN /\ hubs' = then.hubs
          /\ completed' = Append(completed, [event |-> call.event, provider |-> call.provider,
                                             buckets |-> call.buckets, groups |-> call.groups])
          /\ last' = [NoOp EXCEPT !.op = "iconRejects", !.prev = last.op,
                                  !.source = Some(call.source), !.event = call.event,
                                  !.status = Some(call.status), !.provider = call.provider,
                                  !.buckets = call.buckets, !.groups = call.groups,
                                  !.fired = then.fired]
    /\ UNCHANGED otherVars
    /\ UNCHANGED <<started, allRepositories, dirtyRepositories, scmProviders,
                   scmRepositories, SCM_GROUP_ID, stagedChanges, mergeChanges,
                   statusBar, built, opened, events, selectedRepository, commandLog>>

\* an icon lookup of the getGroup call that the i-th suspended getGroups awaits
\* rejects: Promise.all, getGroup and getGroups reject, the then-callback never runs
IconRejects(i) ==
    /\ i \in DOMAIN inflight
    /\ inflight' = Splice(inflight, i)
    /\ last' = [NoOp EXCEPT !.op = "iconRejects", !.prev = last.op,
                            !.source = Some(inflight[i].source), !.event = inflight[i].event,
                            !.status = Some(inflight[i].status),
                            !.provider = inflight[i].provider,
                            !.buckets = inflight[i].buckets,
                            !.groups = inflight[i].groups]
    /\ UNCHANGED otherVars
    /\ UNCHANGED <<started, allRepositories, dirtyRepositories, scmProviders,
                   scmRepositories, hubs, SCM_GROUP_ID, stagedChanges, mergeChanges,
                   statusBar, built, opened, events, completed, selectedRepository,
                   commandLog>>

\* the changes of the resources of the groups that a hub shows
HubChanges(provider) ==
    IF hubs[provider].groups = None THEN {}
    ELSE LET gs == hubs[provider].groups[1]
         IN UNION {{gs[g].resources[k].change : k \in DOMAIN gs[g].resources} :
                     g \in DOMAIN gs}

----------------------------------------------------------------------------
(* The selected repository and the commit commands *)

\* as SelectedRepositoryChanged, the sync status element left in the status bar
SelectedRepositoryChangedKeepsSync(provider) ==
    /\ started
    /\ LET rootUri == hubs[provider].rootUri
           repository == FindFirst({r \in DOMAIN allRepositories : allRepositories[r] = rootUri})
       IN IF repository # 0
          THEN /\ selectedRepository' = Some(allRepositories[repository])
               /\ statusBar' = statusBar
          ELSE /\ selectedRepository' = selectedRepository
               /\ statusBar' = statusBar \ {GIT_REPOSITORY_STATUS}
    /\ last' = [NoOp EXCEPT !.op = "selectedRepositoryChanged", !.prev = last.op,
                            !.provider = provider]
    /\ UNCHANGED otherVars
    /\ UNCHANGED <<started, allRepositories, dirtyRepositories, scmProviders,
                   scmRepositories, hubs, SCM_GROUP_ID, stagedChanges, mergeChanges,
                   inflight, built, opened, events, completed, commandLog>>

\* the handler of scmService.onDidChangeSelectedRepositories for the repository of
\* the scm service whose provider is the hub provider
SelectedRepositoryChanged(provider) ==
    /\ started
    /\ LET rootUri == hubs[provider].rootUri
           repository == FindFirst({r \in DOMAIN allRepositories : allRepositories[r] = rootUri})
       IN IF repository # 0
          THEN /\ selectedRepository' = Some(allRepositories[repository])
               /\ statusBar' = statusBar
          ELSE /\ selectedRepository' = selectedRepository
               /\ statusBar' = (statusBar \ {GIT_REPOSITORY_STATUS}) \ {GIT_SYNC_STATUS}
    /\ last' = [NoOp EXCEPT !.op = "selectedRepositoryChanged", !.prev = last.op,
                            !.provider = provider]
    /\ UNCHANGED otherVars
    /\ UNCHANGED <<started, allRepositories, dirtyRepositories, scmProviders,
                   scmRepositories, hubs, SCM_GROUP_ID, stagedChanges, mergeChanges,
                   inflight, built, opened, events, completed, commandLog>>

\* new Error(message), and a thrown value that is not an Error
Error(message) == [isError |-> TRUE, message |-> message]
NotAnError(message) == [isError |-> FALSE, message |-> message]

\* what git.commit does: it resolves (None) or rejects with an error
CommitOutcomes == {None, Some(Error("commit failed")), Some(NotAnError("commit failed"))}

\* what quickOpenService.commitMessageForAmend() does: it resolves with a message
\* or rejects with a value
AmendMessages ==
    {[message |-> Some("fix"), error |-> None]}
    \cup {[message |-> None, error |-> Some(e)] :
             e \in {Error("User abort."), Error("User abort"), NotAnError("User abort.")}}

\* the options of doCommit: undefined, 'amend' or 'sign-off'
CommitOptions == {None, Some("amend"), Some("sign-off")}

\* gitErrorHandler.handleError(error): the handler takes the error and returns
handleError(handled, error) == Append(handled, error)

\* as doCommit, without the try and catch around git.commit
doCommitRethrows(repository, message, options, outcome) ==
    LET signOff == options = Some("sign-off")
        amend == options = Some("amend")
        call == [repository |-> repository, message |-> message,
                 signOff |-> signOff, amend |-> amend]
    IN [commits |-> <<call>>, handled |-> <<>>, thrown |-> outcome]

\* doCommit(repository, message, options), git.commit ending as outcome says: the
\* calls of git.commit, the errors handed to the error handler and what the promise
\* of doCommit rejects with, if it does
doCommit(repository, message, options, outcome) ==
    LET signOff == options = Some("sign-off")
        amend == options = Some("amend")
        call == [repository |-> repository, message |-> message,
                 signOff |-> signOff, amend |-> amend]
    IN IF outcome = None
       THEN [commits |-> <<call>>, handled |-> <<>>, thrown |-> None]
       ELSE [commits |-> <<call>>, handled |-> handleError(<<>>, outcome[1]), thrown |-> None]

\* as commitAmend, every Error swallowed whatever its message
commitAmendSwallowsErrors(widget, repository, collected) ==
    IF widget /\ repository # None
    THEN IF collected.error = None
         THEN [commits |-> <<[repository |-> repository[1], option |-> "amend",
                              message |-> collected.message[1]]>>,
               thrown |-> None]
         ELSE IF ~collected.error[1].isError
              THEN [commits |-> <<>>, thrown |-> collected.error]
              ELSE [commits |-> <<>>, thrown |-> None]
    ELSE [commits |-> <<>>, thrown |-> None]

\* execute of the command COMMIT_AMEND: widget tells whether tryGetWidget() returns
\* a widget, repository is repositoryTracker.selectedRepository, collected what
\* commitMessageForAmend does; the calls of widget.doCommit and what the promise of
\* execute rejects with, if it does
commitAmend(widget, repository, collected) ==
    IF widget /\ repository # None
    THEN IF collected.error = None
         THEN [commits |-> <<[repository |-> repository[1], option |-> "amend",
                              message |-> collected.message[1]]>>,
               thrown |-> None]
         ELSE IF ~collected.error[1].isError \/ collected.error[1].message # "User abort."
              THEN [commits |-> <<>>, thrown |-> collected.error]
              ELSE [commits |-> <<>>, thrown |-> None]
    ELSE [commits |-> <<>>, thrown |-> None]

\* the command COMMIT for the repository of the hub provider: doCommit without
\* options; options stands for the other callers doCommit allows
DoCommit(provider, message, options, outcome) ==
    /\ started
    /\ Len(commandLog) < MaxCommands
    /\ LET done == doCommit(hubs[provider].rootUri, message, options, outcome)
       IN commandLog' = Append(commandLog,
              [command |-> "doCommit", options |-> options, outcome |-> outcome,
               commits |-> done.commits, handled |-> done.handled, thrown |-> done.thrown])
    /\ last' = [NoOp EXCEPT !.op = "doCommit", !.prev = last.op, !.provider = provider]
    /\ UNCHANGED otherVars
    /\ UNCHANGED <<started, allRepositories, dirtyRepositories, scmProviders,
                   scmRepositories, hubs, SCM_GROUP_ID, stagedChanges, mergeChanges,
                   inflight, statusBar, built, opened, events, completed,
                   selectedRepository>>

\* the command COMMIT_AMEND executed
CommitAmend(widget, collected) ==
    /\ started
    /\ Len(commandLog) < MaxCommands
    /\ LET done == commitAmend(widget, selectedRepository, collected)
       IN commandLog' = Append(commandLog,
              [command |-> "commitAmend", widget |-> widget,
               repository |-> selectedRepository, collected |-> collected,
               commits |-> done.commits, handled |-> <<>>, thrown |-> done.thrown])
    /\ last' = [NoOp EXCEPT !.op = "commitAmend", !.prev = last.op]
    /\ UNCHANGED otherVars
    /\ UNCHANGED <<started, allRepositories, dirtyRepositories, scmProviders,
                   scmRepositories, hubs, SCM_GROUP_ID, stagedChanges, mergeChanges,
                   inflight, statusBar, built, opened, events, completed,
                   selectedRepository>>

NextCommands ==
    \/ OnStart
    \/ \E uri \in RepoUris : RemoveRepository(uri)
    \/ \E provider \in Range(scmRepositories) : SelectedRepositoryChanged(provider)
    \/ \E provider \in Range(scmRepositories), options \in CommitOptions,
          outcome \in CommitOutcomes : DoCommit(provider, "fix", options, outcome)
    \/ \E widget \in BOOLEAN, collected \in AmendMessages : CommitAmend(widget, collected)

\* the user selects repositories of the scm view and commits, while repositories
\* leave the list of the repository provider
SpecCommands == Constructed(<<"file:///r1", "file:///r2">>) /\ [][NextCommands]_vars

----------------------------------------------------------------------------
(* The specifications of the refresh and of the tracker *)

\* the lists of repositories without repetition
RepositoryLists(uris) == DistinctSeqsUpTo(uris, Cardinality(uris))

\* two repositories, before onStart
Init == Constructed(<<"file:///r1", "file:///r2">>)

Next ==
    \/ OnStart
    \/ \E source \in Range(allRepositories) :
          \E status \in Statuses(DistinctSeqsUpTo(EventChanges(source), MaxEventChanges)) :
             GitEvent(source, status, None)
    \/ \E i \in 1..MaxInflight : IconsResolve(i)
    \/ \E i \in 1..MaxInflight : IconRejects(i)
    \/ \E provider \in Range(scmRepositories) :
          \E change \in HubChanges(provider) : Open(change, provider)

\* the refreshes of a contribution whose repositories do not change and whose
\* sync status has no entry: git events arrive, icon lookups resolve or reject, the
\* user opens resources
Spec == Init /\ [][Next]_vars

\* the status of a repository with a.txt Modified and staged and b.txt New and not
\* staged, and the status after b.txt was staged as well
ExampleChanges(source) ==
    << [uri |-> <<source, "a.txt">>, status |-> "Modified", staged |-> TRUE],
       [uri |-> <<source, "b.txt">>, status |-> "New", staged |-> FALSE] >>
AllStagedChanges(source) ==
    << [uri |-> <<source, "a.txt">>, status |-> "Modified", staged |-> TRUE],
       [uri |-> <<source, "b.txt">>, status |-> "New", staged |-> TRUE] >>
ExampleStatuses(source) == Statuses({ExampleChanges(source), AllStagedChanges(source)})

\* one repository, before onStart
InitEndToEnd == Constructed(<<"file:///r1">>)

NextEndToEnd ==
    \/ OnStart
    \/ \E source \in Range(allRepositories) :
          \E status \in ExampleStatuses(source) : GitEvent(source, status, None)
    \/ \E i \in 1..MaxInflight : IconsResolve(i)
    \/ \E i \in 1..MaxInflight : IconRejects(i)
    \/ \E provider \in Range(scmRepositories) :
          \E change \in HubChanges(provider) : Open(change, provider)

\* the refreshes of one repository from status to groups to the URI opened, for
\* the two statuses of the example
SpecEndToEnd == InitEndToEnd /\ [][NextEndToEnd]_vars

\* the branches and heads of a status: no branch or a branch, no head, a head of
\* 7 characters or one of 9
Branches == {<<>>, Master}
Heads == {NoHead, <<"1", "2", "3", "4", "5", "6", "7">>,
          <<"1", "2", "3", "4", "5", "6", "7", "8", "9">>}

\* the changes of one file, Modified or Conflicted, staged or not
TextChanges(source) == GitFileChange({<<source, "a.txt">>}, {"Modified", "Conflicted"})

\* the statuses of every branch, head and list of these changes
TextStatuses(source) ==
    [branch : Branches, currentHead : Heads,
     changes : DistinctSeqsUpTo(TextChanges(source), MaxEventChanges)]

NextStatusText ==
    \/ OnStart
    \/ \E source \in Range(allRepositories) :
          \E status \in TextStatuses(source) : events = 0 /\ GitEvent(source, status, None)
    \/ \E i \in 1..MaxInflight : IconsResolve(i)
    \/ \E i \in 1..MaxInflight : IconRejects(i)

\* the first git event of a repository, for every branch, head and change list
SpecStatusText == InitEndToEnd /\ [][NextStatusText]_vars

\* any list of repositories, before onStart
InitTracker == \E repos \in RepositoryLists(RepoUris) : Constructed(repos)

NextTracker ==
    \/ OnStart
    \/ \E uri \in RepoUris : AddRepository(uri)
    \/ \E uri \in RepoUris : RemoveRepository(uri)
    \/ \E source \in Range(allRepositories), status \in Statuses({<<>>}),
          entry \in SyncEntries \ {None} : GitEvent(source, status, entry)

\* the repository tracker: repositories come and go between git events, whose
\* statuses have no change, so that no getGroups call is ever suspended, and
\* whose sync status has an entry
SpecTracker == InitTracker /\ [][NextTracker]_vars

----------------------------------------------------------------------------
(* Claims about getGroups and getUriToOpen, under SpecCalls *)

\* the change list of the status the last operation worked on
LastChanges == IF last.status = None THEN <<>> ELSE last.status[1].changes

Dropped(c) == c.status = "Conflicted" /\ c.staged
Count(s, P(_)) == Cardinality({i \in DOMAIN s : P(s[i])})
GroupChanges(g) == {g.resources[i].change : i \in DOMAIN g.resources}

\* C1: the staged, unstaged and merge buckets of getGroups are pairwise disjoint and
\* hold exactly the changes that are not both Conflicted and staged, each in the
\* bucket of its kind; a Conflicted staged change is in no bucket and in no group
C1_BucketsPartition ==
    last.op = "getGroups" =>
        LET S == Range(last.buckets.stagedChanges)
            U == Range(last.buckets.unstagedChanges)
            M == Range(last.buckets.mergeChanges)
            L == LastChanges
        IN /\ S \cap U = {} /\ S \cap M = {} /\ U \cap M = {}
           /\ S \cup U \cup M = {c \in Range(L) : ~Dropped(c)}
           /\ Len(last.buckets.stagedChanges) + Len(last.buckets.unstagedChanges)
                + Len(last.buckets.mergeChanges) = Count(L, LAMBDA c : ~Dropped(c))
           /\ \A c \in Range(L) :
                /\ (c.status # "Conflicted" /\ c.staged) => (c \in S /\ c \notin U \cup M)
                /\ (c.status # "Conflicted" /\ ~c.staged) => (c \in U /\ c \notin S \cup M)
                /\ (c.status = "Conflicted" /\ ~c.staged) => (c \in M /\ c \notin S \cup U)
                /\ Dropped(c) =>
                     /\ c \notin S \cup U \cup M
                     /\ \A i \in DOMAIN last.groups : c \notin GroupChanges(last.groups[i])
           /\ stagedChanges = last.buckets.stagedChanges
           /\ mergeChanges = last.buckets.mergeChanges

\* getGroups has classified a list holding a Conflicted staged change next to a
\* change that is kept
C1_Witness ==
    /\ last.op = "getGroups"
    /\ \E c \in Range(LastChanges) : Dropped(c)
    /\ last.groups # <<>>

\* the changes a group with this label is to show
InGroup(label, c) ==
    IF label = "Staged changes" THEN c.status # "Conflicted" /\ c.staged
    ELSE IF label = "Changes" THEN c.status # "Conflicted" /\ ~c.staged
    ELSE c.status = "Conflicted" /\ ~c.staged

LabelIf(label) ==
    IF \E i \in DOMAIN LastChanges : InGroup(label, LastChanges[i]) THEN <<label>> ELSE <<>>

\* C2: getGroups returns one group per non-empty bucket and none for an empty one,
\* in the order Staged changes, Changes, Merged Changes; a group holds one resource
\* per change of its bucket; an empty list or an undefined status gives no group
C2_OneGroupPerBucket ==
    last.op = "getGroups" =>
        /\ [i \in DOMAIN last.groups |-> last.groups[i].label]
             = LabelIf("Staged changes") \o LabelIf("Changes") \o LabelIf("Merged Changes")
        /\ \A i \in DOMAIN last.groups :
             LET g == last.groups[i]
             IN /\ Len(g.resources) = Count(LastChanges, LAMBDA c : InGroup(g.label, c))
                /\ \A c \in Range(LastChanges) :
                     InGroup(g.label, c) =>
                        Count(g.resources, LAMBDA r : r.change = c)
                          = Count(LastChanges, LAMBDA d : d = c)
                /\ \A k \in DOMAIN g.resources :
                     g.resources[k].sourceUri = URI(g.resources[k].change.uri)
        /\ (last.status = None \/ LastChanges = <<>>) => last.groups = <<>>

\* getGroups has returned the staged and the merge group for a status with no
\* unstaged change that is not Conflicted
C2_Witness ==
    /\ last.op = "getGroups"
    /\ Len(last.groups) = 2
    /\ last.groups[1].label = "Staged changes"
    /\ last.groups[2].label = "Merged Changes"

\* the URIs of the 7-case table
WorkingTree(uri) == [scheme |-> "file", path |-> uri, query |-> ""]
RepositoryScheme(uri) == [scheme |-> GIT_RESOURCE_SCHEME, path |-> uri, query |-> ""]
HeadScheme(uri) == [scheme |-> GIT_RESOURCE_SCHEME, path |-> uri, query |-> "HEAD"]
Diff(left, right, name, label) ==
    [scheme |-> "diff", left |-> left, right |-> right, label |-> <<name, label>>]

\* the 7-case table over (status, staged, inStagedSet, inMergeSet)
UriTable(uri, isNew, staged, inStagedSet, inMergeSet) ==
    LET name == uri[Len(uri)]
    IN CASE isNew /\ ~staged /\ ~inStagedSet -> WorkingTree(uri)
         [] isNew /\ staged -> RepositoryScheme(uri)
         [] isNew /\ ~staged /\ inStagedSet ->
                Diff(RepositoryScheme(uri), WorkingTree(uri), name, " (Working tree)")
         [] ~isNew /\ staged ->
                Diff(HeadScheme(uri), RepositoryScheme(uri), name, " (Index)")
         [] ~isNew /\ ~staged /\ inStagedSet ->
                Diff(RepositoryScheme(uri), WorkingTree(uri), name, " (Working tree)")
         [] ~isNew /\ ~staged /\ ~inStagedSet /\ inMergeSet -> WorkingTree(uri)
         [] OTHER -> Diff(HeadScheme(uri), WorkingTree(uri), name, " (Working tree)")

\* C3: getUriToOpen returns the result of the 7-case table for every change and
\* every content of the cached staged and merge sets; a uri in both sets is
\* resolved as case 5
C3_UriTable ==
    opened # None =>
        LET o == opened[1]
        IN o.uri = UriTable(o.change.uri, o.change.status = "New", o.change.staged,
                            \E c \in Range(o.staged) : c.uri = o.change.uri,
                            \E c \in Range(o.merge) : c.uri = o.change.uri)

\* a change that is not New and not staged was opened while its uri was in both
\* cached sets
C3_Witness ==
    /\ opened # None
    /\ opened[1].change.status # "New"
    /\ ~opened[1].change.staged
    /\ \E c \in Range(opened[1].staged) : c.uri = opened[1].change.uri
    /\ \E c \in Range(opened[1].merge) : c.uri = opened[1].change.uri

\* the bucket a group with this label is built from
BucketOf(label) ==
    groupSteps[CHOOSE j \in DOMAIN groupSteps : groupSteps[j].label = label].bucket

BaseName(uri) == uri[Len(uri)]
ChangesNamed(changes, name) == SelectSeq(changes, LAMBDA c : BaseName(c.uri) = name)
ResourcesNamed(rs, name) == SelectSeq(rs, LAMBDA r : BaseName(r.sourceUri.path) = name)

\* C11: in every group getGroups returns the resources are in non-decreasing order
\* of the last path segment of their URI under locale comparison, and the resources
\* whose last segments compare equal are in the order of their changes in the bucket
C11_ResourcesSorted ==
    last.op = "getGroups" =>
        \A g \in DOMAIN last.groups :
            LET rs == last.groups[g].resources
                bucket == last.buckets[BucketOf(last.groups[g].label)]
            IN /\ \A i, j \in DOMAIN rs :
                     i < j => LocaleRank(BaseName(rs[i].sourceUri.path))
                                <= LocaleRank(BaseName(rs[j].sourceUri.path))
               /\ \A name \in Range(LocaleOrder) :
                     LET named == ResourcesNamed(rs, name)
                     IN [k \in DOMAIN named |-> named[k].change] = ChangesNamed(bucket, name)

\* getGroups has returned a group of two different files of the same name, the one
\* of the subdirectory first in the bucket
C11_Witness ==
    /\ last.op = "getGroups"
    /\ \E g \in DOMAIN last.groups :
          LET rs == last.groups[g].resources
          IN /\ Len(rs) = 2
             /\ rs[1].sourceUri.path = <<"r", "d", "a.txt">>
             /\ rs[2].sourceUri.path = <<"r", "a.txt">>

\* the colors of the table of getColor
ColorTable(status) ==
    CASE status = "New" -> "var(--theia-success-color0)"
      [] status = "Deleted" -> "var(--theia-warn-color0)"
      [] status = "Conflicted" -> "var(--theia-error-color0)"
      [] OTHER -> "var(--theia-brand-color0)"

\* C16: getColor returns a color for every member of the status enum: the success
\* color for New, the warn color for Deleted, the error color for Conflicted, the
\* brand color for every other member; the call changes no state
C16_ColorTotal ==
    /\ [](last.op = "getColor" =>
             /\ last.color # None
             /\ last.color[1].status \in GitFileStatus
             /\ last.color[1].color = ColorTable(last.color[1].status))
    /\ [][last'.op = "getColor" =>
             UNCHANGED <<started, allRepositories, dirtyRepositories, scmProviders,
                         scmRepositories, hubs, SCM_GROUP_ID, stagedChanges, mergeChanges,
                         inflight, statusBar, built, opened, events, completed,
                         selectedRepository, commandLog>>]_vars

\* getColor was called for a deleted file
C16_Witness ==
    /\ last.op = "getColor"
    /\ last.color = Some([status |-> "Deleted", color |-> "var(--theia-warn-color0)"])

----------------------------------------------------------------------------
(* Claims about the refresh, under Spec *)

\* C4: when an icon lookup rejects the getGroups call rejects, the groups of the hub
\* stay as they were and nothing is fired; what a then-callback publishes is always
\* the full list of groups of its status, never a part of it
C4_RejectPublishesNothing ==
    /\ [](last.published =>
            /\ hubs[last.provider].groups = Some(last.groups)
            /\ [i \in DOMAIN last.groups |-> last.groups[i].label]
                 = LabelIf("Staged changes") \o LabelIf("Changes") \o LabelIf("Merged Changes"))
    /\ [][last'.op = "iconRejects" =>
            /\ hubs' = hubs
            /\ last'.fired = <<>>
            /\ ~last'.published
            /\ Len(inflight') = Len(inflight) - 1]_vars

\* the lookup for the second group of a refresh rejected after its first group was
\* built, on a hub that had groups published before
C4_Witness ==
    /\ last.op = "iconRejects"
    /\ Len(last.groups) = 1
    /\ last.groups[1].label = "Staged changes"
    /\ hubs[last.provider].groups # None

\* C8: no two groups ever built carry the same id, and the id counter never
\* decreases
C8_GroupIdsUnique ==
    /\ [](\A i, j \in DOMAIN built : built[i].id = built[j].id => i = j)
    /\ [][SCM_GROUP_ID' >= SCM_GROUP_ID]_vars

\* a group was built again with the same label, provider and resources
C8_Witness ==
    \E i, j \in DOMAIN built :
        /\ i < j
        /\ built[i].label = built[j].label
        /\ built[i].provider = built[j].provider
        /\ built[i].resources = built[j].resources

\* C9: a then-callback sets the groups of the hub to the list just built before it
\* fires the resources change, so that a subscriber reading provider.groups in its
\* handler reads that list
C9_SubscriberReadsNewGroups ==
    last.published =>
        /\ hubs[last.provider].groups = Some(last.groups)
        /\ ~hubs[last.provider].disposed =>
              \E k \in DOMAIN last.fired : last.fired[k].kind = "resources"
        /\ \A k \in DOMAIN last.fired :
              last.fired[k].kind = "resources" =>
                 /\ last.fired[k].provider = last.provider
                 /\ last.fired[k].read = Some(last.groups)

\* a refresh published groups on a hub for which another group had been built before
C9_Witness ==
    /\ last.published
    /\ last.groups # <<>>
    /\ \E k \in DOMAIN last.fired : last.fired[k].kind = "resources"
    /\ \E i \in DOMAIN built :
          /\ built[i].provider = last.provider
          /\ \A j \in DOMAIN last.groups : last.groups[j] # built[i]

\* C10: after fireChangeStatusBarCommands(cmds) the notification carries cmds and
\* provider.statusBarCommands returns cmds
C10_StatusBarCommandsReplaced ==
    \A k \in DOMAIN last.fired :
        last.fired[k].kind = "statusBarCommands" =>
            last.fired[k].read = Some(last.fired[k].payload)

\* the last completed refresh of a hub
SnapshotOf(provider) ==
    completed[CHOOSE k \in DOMAIN completed :
                 /\ completed[k].provider = provider
                 /\ \A j \in DOMAIN completed : completed[j].provider = provider => j <= k]

\* C17: whenever a resource of the groups a hub shows is opened, the staged and
\* merge sets getUriToOpen consults are the staged and merge buckets of the status
\* from which the groups of that hub were built
C17_OpenReadsOwnSnapshot ==
    [][last'.op = "open" =>
          LET o == opened'[1]
          IN /\ o.staged = SnapshotOf(o.provider).buckets.stagedChanges
             /\ o.merge = SnapshotOf(o.provider).buckets.mergeChanges]_vars

\* C18: a step takes a suspended refresh away only by completing or rejecting that
\* very refresh, a refresh whose lookups all resolve publishes, and the groups of a
\* hub are those of the refresh of that hub that completed last, whichever of the
\* overlapping refreshes started first
C18_LastCompletedWins ==
    /\ [](\A k \in DOMAIN completed :
             hubs[completed[k].provider].groups = Some(SnapshotOf(completed[k].provider).groups))
    /\ [][/\ \A i \in DOMAIN inflight :
                \/ \E j \in DOMAIN inflight' : inflight'[j].event = inflight[i].event
                \/ /\ last'.event = inflight[i].event
                   /\ last'.published \/ last'.op = "iconRejects"
          /\ (last'.op = "iconsResolve" /\ Len(inflight') < Len(inflight)) =>
                /\ last'.published
                /\ hubs'[last'.provider].groups = Some(last'.groups)]_vars

\* two refreshes of one hub overlapped, the one that started first completed last
\* and its groups, which differ from those of the other, are the groups of the hub
C18_Witness ==
    /\ last.op = "iconsResolve"
    /\ last.published
    /\ Len(completed) = 2
    /\ completed[1].provider = completed[2].provider
    /\ completed[2].event < completed[1].event
    /\ completed[1].groups # <<>>
    /\ [k \in DOMAIN completed[1].groups |-> completed[1].groups[k].label]
         # [k \in DOMAIN completed[2].groups |-> completed[2].groups[k].label]
    /\ hubs[completed[2].provider].groups = Some(completed[2].groups)

\* C19: a refresh that completes writes its staged and merge buckets to the caches
\* whatever refresh wrote them before, also one that started later, and
\* getUriToOpen decides against the caches as they are
C19_SlowRefreshOverwritesCaches ==
    /\ [](completed # <<>> =>
             /\ stagedChanges = completed[Len(completed)].buckets.stagedChanges
             /\ mergeChanges = completed[Len(completed)].buckets.mergeChanges)
    /\ [][last'.op = "open" =>
             /\ opened'[1].staged = stagedChanges
             /\ opened'[1].merge = mergeChanges
             /\ opened'[1].uri = getUriToOpen(opened'[1].change, stagedChanges, mergeChanges)]_vars

\* a resource was opened while the caches held the buckets of a refresh that had
\* started before the refresh completed just before it, and the URI opened is not
\* the one the buckets of the later status give
C19_Witness ==
    /\ last.op = "open"
    /\ Len(completed) = 2
    /\ completed[2].event < completed[1].event
    /\ completed[2].buckets # completed[1].buckets
    /\ opened # None
    /\ opened[1].staged = completed[2].buckets.stagedChanges
    /\ opened[1].merge = completed[2].buckets.mergeChanges
    /\ opened[1].uri # getUriToOpen(opened[1].change, completed[1].buckets.stagedChanges,
                                    completed[1].buckets.mergeChanges)

----------------------------------------------------------------------------
(* Claims about the example, under SpecEndToEnd *)

\* the last operation completed a refresh for the status of the example
ExamplePublished ==
    /\ last.published
    /\ last.source # None
    /\ last.status = Some([branch |-> Master, currentHead |-> NoHead,
                           changes |-> ExampleChanges(last.source[1])])

\* C12: a completed refresh for the changes [a.txt Modified staged, b.txt New not
\* staged] publishes exactly the groups Staged changes with a.txt and Changes with
\* b.txt, in this order; a.txt opened then resolves to the diff of the HEAD URI
\* against the repository URI labelled Index, b.txt to its working tree URI
C12_EndToEnd ==
    /\ [](ExamplePublished =>
             LET gs == hubs[last.provider].groups[1]
                 a == <<last.source[1], "a.txt">>
                 b == <<last.source[1], "b.txt">>
             IN /\ hubs[last.provider].groups # None
                /\ Len(gs) = 2
                /\ gs[1].label = "Staged changes"
                /\ [k \in DOMAIN gs[1].resources |-> gs[1].resources[k].sourceUri] = <<WorkingTree(a)>>
                /\ gs[2].label = "Changes"
                /\ [k \in DOMAIN gs[2].resources |-> gs[2].resources[k].sourceUri] = <<WorkingTree(b)>>)
    /\ [][(ExamplePublished /\ last'.op = "open" /\ opened'[1].provider = last.provider) =>
             LET o == opened'[1]
             IN /\ BaseName(o.change.uri) = "a.txt" =>
                      o.uri = Diff(HeadScheme(o.change.uri), RepositoryScheme(o.change.uri),
                                   "a.txt", " (Index)")
                /\ BaseName(o.change.uri) = "b.txt" => o.uri = WorkingTree(o.change.uri)]_vars

\* b.txt was opened right after the refresh for the example had published, another
\* refresh having published on the hub before
C12_Witness ==
    /\ last.op = "open"
    /\ last.prev = "iconsResolve"
    /\ Len(completed) = 2
    /\ completed[2].buckets.stagedChanges = <<ExampleChanges("file:///r1")[1]>>
    /\ opened # None
    /\ opened[1].change = ExampleChanges("file:///r1")[2]
    /\ opened[1].uri = WorkingTree(<<"file:///r1", "b.txt">>)

----------------------------------------------------------------------------
(* Claims about the status bar text, under SpecStatusText *)

TextLabel(status) ==
    CASE status.branch # <<>> -> status.branch
      [] status.branch = <<>> /\ status.currentHead # <<>> ->
            [i \in 1..(IF Len(status.currentHead) < 8 THEN Len(status.currentHead) ELSE 8)
               |-> status.currentHead[i]]
      [] OTHER -> <<"N", "O", "-", "H", "E", "A", "D">>

TextMarker(status) ==
    CASE status.changes = <<>> -> ""
      [] \E c \in Range(status.changes) : c.status = "Conflicted" -> "!"
      [] status.changes # <<>> /\ \A c \in Range(status.changes) :
                                     c.status # "Conflicted" /\ c.staged -> "+"
      [] OTHER -> "*"

\* C26: the text of the command fired with the groups of a git event is
\* '$(code-fork) ', the branch label and the dirty marker; the label is the branch,
\* else the first 8 characters of the current head, else NO-HEAD; the marker is
\* empty without changes, '!' with a Conflicted change, '+' without one when every
\* change is staged, '*' otherwise
C26_StatusBarText ==
    last.published =>
        /\ \E k \in DOMAIN last.fired : last.fired[k].kind = "statusBarCommands"
        /\ \A k \in DOMAIN last.fired :
              last.fired[k].kind = "statusBarCommands" =>
                 /\ Len(last.fired[k].payload) = 1
                 /\ last.fired[k].payload[1].text
                      = <<"$(code-fork) ", TextLabel(last.status[1]), TextMarker(last.status[1])>>

\* the text was fired for a status without branch, with a head of 9 characters and
\* with a Conflicted change, every change staged
C26_Witness ==
    /\ last.published
    /\ last.status # None
    /\ last.status[1].branch = <<>>
    /\ Len(last.status[1].currentHead) = 9
    /\ last.status[1].changes # <<>>
    /\ \A c \in Range(last.status[1].changes) : c.staged
    /\ \E c \in Range(last.status[1].changes) : c.status = "Conflicted"
    /\ \E k \in DOMAIN last.fired :
          /\ last.fired[k].kind = "statusBarCommands"
          /\ last.fired[k].payload[1].text
               = <<"$(code-fork) ", <<"1", "2", "3", "4", "5", "6", "7", "8">>, "!">>

----------------------------------------------------------------------------
(* Claims about the commands, under SpecCommands *)

\* C13: doCommit never rejects, whatever its option; when git.commit fails, the
\* error is handed to the git error handler exactly once, and when it succeeds the
\* handler gets nothing
C13_DoCommitNeverRejects ==
    \A k \in DOMAIN commandLog :
        commandLog[k].command = "doCommit" =>
            /\ commandLog[k].thrown = None
            /\ Len(commandLog[k].commits) = 1
            /\ commandLog[k].commits[1].amend = (commandLog[k].options = Some("amend"))
            /\ commandLog[k].commits[1].signOff = (commandLog[k].options = Some("sign-off"))
            /\ commandLog[k].handled = commandLog[k].outcome

\* git.commit failed in a doCommit with option sign-off for a repository that had
\* left the list
C13_Witness ==
    /\ last.op = "doCommit"
    /\ \A r \in DOMAIN allRepositories : allRepositories[r] # hubs[last.provider].rootUri
    /\ commandLog[Len(commandLog)].command = "doCommit"
    /\ commandLog[Len(commandLog)].options = Some("sign-off")
    /\ commandLog[Len(commandLog)].outcome = Some(Error("commit failed"))
    /\ commandLog[Len(commandLog)].handled = <<Error("commit failed")>>

\* C14: when collecting the amend message fails, the amend command commits nothing;
\* it completes without error if the value thrown is an Error with the message
\* 'User abort.' and rejects with the value thrown otherwise
C14_AmendAbort ==
    \A k \in DOMAIN commandLog :
        (commandLog[k].command = "commitAmend" /\ commandLog[k].widget
           /\ commandLog[k].repository # None /\ commandLog[k].collected.error # None) =>
            LET e == commandLog[k].collected.error[1]
            IN /\ commandLog[k].commits = <<>>
               /\ (e.isError /\ e.message = "User abort.") => commandLog[k].thrown = None
               /\ ~(e.isError /\ e.message = "User abort.") => commandLog[k].thrown = Some(e)

\* the amend command was executed for a selected repository and the collection of
\* the message failed with a value that has the message of the abort but is no Error
C14_Witness ==
    /\ last.op = "commitAmend"
    /\ commandLog[Len(commandLog)].command = "commitAmend"
    /\ commandLog[Len(commandLog)].widget
    /\ commandLog[Len(commandLog)].repository # None
    /\ commandLog[Len(commandLog)].collected.error = Some(NotAnError("User abort."))
    /\ commandLog[Len(commandLog)].thrown = Some(NotAnError("User abort."))
    /\ commandLog[Len(commandLog)].commits = <<>>

\* C15: the handler of a selected-repository-changed event whose provider has the
\* root URI of no repository of the repository provider removes the repository
\* status and the sync status elements of the status bar and leaves the selected
\* repository as it is; when a repository has that root URI it becomes the selected
\* repository and the status bar stays as it is
C15_SelectedRepositoryChanged ==
    [][last'.op = "selectedRepositoryChanged" =>
          LET rootUri == hubs[last'.provider].rootUri
          IN IF \E r \in DOMAIN allRepositories : allRepositories[r] = rootUri
             THEN /\ selectedRepository' = Some(rootUri)
                  /\ statusBar' = statusBar
             ELSE /\ selectedRepository' = selectedRepository
                  /\ GIT_REPOSITORY_STATUS \notin statusBar'
                  /\ GIT_SYNC_STATUS \notin statusBar'
                  /\ statusBar' \subseteq statusBar]_vars

\* the event named the provider of a repository that had left the list while
\* another repository was selected
C15_Witness ==
    /\ last.op = "selectedRepositoryChanged"
    /\ \A r \in DOMAIN allRepositories : allRepositories[r] # hubs[last.provider].rootUri
    /\ selectedRepository # None
    /\ selectedRepository # Some(hubs[last.provider].rootUri)
    /\ statusBar = {}

----------------------------------------------------------------------------
(* Claims about the repository tracker, under SpecTracker *)

\* C5: after a tick every repository of the current list that was absent from the
\* previously observed list has a hub registered
C5_EveryAddedRegistered ==
    [][last'.op = "gitEvent" =>
         \A i \in DOMAIN allRepositories :
            (\A j \in DOMAIN dirtyRepositories : dirtyRepositories[j] # allRepositories[i]) =>
               \E k \in DOMAIN scmProviders' :
                  /\ hubs'[scmProviders'[k]].rootUri = allRepositories[i]
                  /\ ~hubs'[scmProviders'[k]].disposed]_vars

\* C6: after a tick every repository of the previously observed list that is absent
\* from the current list has its hub disposed and no provider left in scmProviders
C6_EveryRemovedDisposed ==
    [][last'.op = "gitEvent" =>
         \A j \in DOMAIN dirtyRepositories :
            (\A i \in DOMAIN allRepositories : allRepositories[i] # dirtyRepositories[j]) =>
               /\ \A p \in DOMAIN hubs' :
                     hubs'[p].rootUri = dirtyRepositories[j] => hubs'[p].disposed
               /\ \A k \in DOMAIN scmProviders' :
                     hubs'[scmProviders'[k]].rootUri # dirtyRepositories[j]]_vars

\* C20: the handler of a status event of a repository of the list finds the hub of
\* that repository and starts a refresh of it; the refresh of a status without
\* changes awaits no icon lookup, so that before any other event is handled the hub
\* stores the groups built from the status and fires the resources change
C20_EventReachesHub ==
    [][last'.op = "gitEvent" =>
          /\ last'.provider # 0
          /\ hubs'[last'.provider].rootUri = last'.source[1]
          /\ \/ \E i \in DOMAIN inflight' : inflight'[i].event = last'.event
             \/ /\ last'.published
                /\ hubs'[last'.provider].groups = Some(<<>>)
                /\ \E k \in DOMAIN last'.fired :
                      /\ last'.fired[k].kind = "resources"
                      /\ last'.fired[k].provider = last'.provider]_vars

\* C21: one tick registers at most one hub and disposes at most one, however many
\* repositories were added or removed since the tick before, and after it
\* dirtyRepositories is the list of the repository provider
C21_OneAddOneRemovalPerTick ==
    [][last'.op = "gitEvent" =>
          /\ Len(last'.registered) <= 1
          /\ Len(last'.disposed) <= 1
          /\ Len(hubs') <= Len(hubs) + 1
          /\ Cardinality({p \in DOMAIN hubs : hubs'[p].disposed /\ ~hubs[p].disposed}) <= 1
          /\ dirtyRepositories' = allRepositories]_vars

\* a tick registered one hub and disposed one while the hub of another repository
\* that had left the list stayed
C21_Witness ==
    /\ last.op = "gitEvent"
    /\ Len(last.registered) = 1
    /\ Len(last.disposed) = 1
    /\ \E k \in DOMAIN scmProviders :
          /\ ~hubs[scmProviders[k]].disposed
          /\ \A r \in DOMAIN allRepositories :
                allRepositories[r] # hubs[scmProviders[k]].rootUri

\* C25: after a tick scmProviders holds no two providers with the same root URI,
\* and every provider in it has the root URI of a repository of the list
C25_ProvidersMatchRepositories ==
    last.op = "gitEvent" =>
        /\ \A j, k \in DOMAIN scmProviders :
              hubs[scmProviders[j]].rootUri = hubs[scmProviders[k]].rootUri => j = k
        /\ \A k \in DOMAIN scmProviders :
              \E r \in DOMAIN allRepositories :
                 allRepositories[r] = hubs[scmProviders[k]].rootUri

\* C7: a tick that follows a tick, the list of repositories unchanged in between,
\* registers and disposes nothing and leaves scmProviders and dirtyRepositories as
\* they were
C7_SecondTickIdle ==
    [][(last.op = "gitEvent" /\ last'.op = "gitEvent") =>
          /\ last'.registered = <<>>
          /\ last'.disposed = <<>>
          /\ scmProviders' = scmProviders
          /\ scmRepositories' = scmRepositories
          /\ dirtyRepositories' = dirtyRepositories]_vars

\* a tick followed a tick that had registered a hub and disposed another
C7_Witness ==
    /\ last.op = "gitEvent"
    /\ last.prev = "gitEvent"
    /\ events = 2
    /\ \E p \in DOMAIN hubs : hubs[p].disposed
    /\ Len(hubs) > Len(allRepositories) + 1

----------------------------------------------------------------------------
(* ScmWidget: the panel and the hubs it listens to *)

\* every git variable but last
gitVarsButLast ==
    <<started, allRepositories, dirtyRepositories, scmProviders, scmRepositories, hubs,
      SCM_GROUP_ID, stagedChanges, mergeChanges, inflight, statusBar, built, opened,
      events, completed, selectedRepository, commandLog>>

PanelUris == {"file:///r1", "file:///r2"}

\* the group lists a provider stores: each group with the number of its resources
PanelGroups ==
    {<<>>,
     <<[label |-> "Changes", resources |-> 1]>>,
     <<[label |-> "Staged changes", resources |-> 0], [label |-> "Changes", resources |-> 2]>>}

\* a repository of the service: its provider's root URI and groups
ScmRepository(uri) == [rootUri |-> uri, groups |-> None]

\* repositories.find(repo => repo.provider.rootUri === uri)
findRepository(repositories, uri) ==
    LET hits == SelectSeq(repositories, LAMBDA repo : Some(repo.rootUri) = uri)
    IN IF hits = <<>> THEN None ELSE Some(hits[1])

\* the repository render() takes: the one of selectedRepoUri when that is set, else
\* the selected repository of the service
shownRepository(widget, service) ==
    IF widget.selectedRepoUri # None
    THEN findRepository(service.repositories, widget.selectedRepoUri)
    ELSE findRepository(service.repositories, service.selectedRepository)

\* ScmResourceGroupsContainer.render: the groups of the provider that have resources
renderGroups(groups) ==
    IF groups = None THEN <<>> ELSE SelectSeq(groups[1], LAMBDA group : group.resources > 0)

\* ScmWidget.render
render(widget, service) ==
    LET repository == shownRepository(widget, service)
    IN IF repository = None
       THEN [alert |-> TRUE, repository |-> None, groups |-> <<>>]
       ELSE [alert |-> FALSE, repository |-> Some(repository[1].rootUri),
             groups |-> renderGroups(repository[1].groups)]

\* the handler of onDidChangeSelectedRepositories
onDidChangeSelectedRepositories(widget, uri) ==
    IF widget.constructed
    THEN [widget EXCEPT !.selectedRepoUri = Some(uri), !.updateRequested = TRUE]
    ELSE widget

\* the handler the widget connected to the onDidChangeResources of a hub; a hub the
\* widget never connected to runs no handler
onDidChangeResources(widget, uri) ==
    IF uri \in widget.subscribed /\ widget.selectedRepoUri = Some(uri)
    THEN [widget EXCEPT !.updateRequested = TRUE]
    ELSE widget

\* the widget is created: the constructor requests an update, init subscribes to the
\* service
WidgetCreate ==
    /\ ~scmWidget.constructed
    /\ scmWidget' = [scmWidget EXCEPT !.constructed = TRUE, !.updateRequested = TRUE]
    /\ last' = [NoOp EXCEPT !.op = "createWidget", !.prev = last.op]
    /\ UNCHANGED <<scmService, scmContribution, dialogs, workspaceVariables, quickOpenAction>>
    /\ UNCHANGED gitVarsButLast

\* the update request is processed: the widget renders
WidgetRender ==
    /\ scmWidget.constructed
    /\ scmWidget.updateRequested
    /\ scmWidget' = [scmWidget EXCEPT !.updateRequested = FALSE,
                                      !.rendered = Some(render(scmWidget, scmService)),
                                      !.executed = <<>>, !.thrown = None]
    /\ last' = [NoOp EXCEPT !.op = "render", !.prev = last.op]
    /\ UNCHANGED <<scmService, scmContribution, dialogs, workspaceVariables, quickOpenAction>>
    /\ UNCHANGED gitVarsButLast

\* a provider is registered with the service, which announces the repository; the
\* widget, if it exists, connects to the hub's onDidChangeResources
ServiceRegister(uri) ==
    /\ findRepository(scmService.repositories, Some(uri)) = None
    /\ scmService' = [scmService EXCEPT !.repositories = Append(@, ScmRepository(uri))]
    /\ scmWidget' = IF scmWidget.constructed
                    THEN [scmWidget EXCEPT !.subscribed = @ \cup {uri}]
                    ELSE scmWidget
    /\ last' = [NoOp EXCEPT !.op = "registerScmProvider", !.prev = last.op, !.source = Some(uri)]
    /\ UNCHANGED <<scmContribution, dialogs, workspaceVariables, quickOpenAction>>
    /\ UNCHANGED gitVarsButLast

\* the service selects a repository and fires onDidChangeSelectedRepositories
ServiceSelect(uri) ==
    /\ findRepository(scmService.repositories, Some(uri)) # None
    /\ scmService' = [scmService EXCEPT !.selectedRepository = Some(uri)]
    /\ scmWidget' = onDidChangeSelectedRepositories(scmWidget, uri)
    /\ last' = [NoOp EXCEPT !.op = "selectRepository", !.prev = last.op, !.source = Some(uri)]
    /\ UNCHANGED <<scmContribution, dialogs, workspaceVariables, quickOpenAction>>
    /\ UNCHANGED gitVarsButLast

\* ScmWidget.restoreState(oldState), the message left aside
WidgetRestoreState(oldUri) ==
    /\ scmWidget.constructed
    /\ LET restored == [scmWidget EXCEPT !.selectedRepoUri = oldUri]
           repository == findRepository(scmService.repositories, oldUri)
       IN IF repository # None
          THEN /\ scmService' = [scmService EXCEPT !.selectedRepository = oldUri]
               /\ scmWidget' = onDidChangeSelectedRepositories(restored, oldUri[1])
          ELSE /\ scmService' = scmService
               /\ scmWidget' = restored
    /\ last' = [NoOp EXCEPT !.op = "restoreState", !.prev = last.op, !.source = oldUri]
    /\ UNCHANGED <<scmContribution, dialogs, workspaceVariables, quickOpenAction>>
    /\ UNCHANGED gitVarsButLast

\* the provider of a repository stores new groups and fires onDidChangeResources
HubChangeResources(uri, groups) ==
    /\ findRepository(scmService.repositories, Some(uri)) # None
    /\ scmService' =
          [scmService EXCEPT !.repositories =
              [k \in DOMAIN @ |-> IF @[k].rootUri = uri
                                  THEN [@[k] EXCEPT !.groups = Some(groups)]
                                  ELSE @[k]]]
    /\ scmWidget' = onDidChangeResources(scmWidget, uri)
    /\ last' = [NoOp EXCEPT !.op = "fireChangeResources", !.prev = last.op,
                            !.source = Some(uri)]
    /\ UNCHANGED <<scmContribution, dialogs, workspaceVariables, quickOpenAction>>
    /\ UNCHANGED gitVarsButLast

NextPanel ==
    \/ WidgetCreate
    \/ WidgetRender
    \/ \E uri \in PanelUris : ServiceRegister(uri)
    \/ \E uri \in PanelUris : ServiceSelect(uri)
    \/ \E oldUri \in {None} \cup {Some(uri) : uri \in PanelUris} : WidgetRestoreState(oldUri)
    \/ \E uri \in PanelUris, groups \in PanelGroups : HubChangeResources(uri, groups)

\* the panel, the service and the hubs: providers are registered before or after the
\* widget is created
SpecPanel == Constructed(<<>>) /\ [][NextPanel]_vars

\* C22: a resources-changed notification of the hub the panel shows makes the panel
\* update, and the render of that update shows the groups the hub stores; a
\* notification of another hub requests no update
C22_ShownHubNotificationUpdates ==
    [][/\ (last'.op = "fireChangeResources" /\ scmWidget.constructed) =>
            IF /\ shownRepository(scmWidget, scmService) # None
               /\ Some(shownRepository(scmWidget, scmService)[1].rootUri) = last'.source
            THEN scmWidget'.updateRequested
            ELSE scmWidget'.updateRequested = scmWidget.updateRequested
       /\ (last'.op = "render" /\ scmWidget'.rendered[1].repository # None) =>
            scmWidget'.rendered[1].groups =
               renderGroups(shownRepository(scmWidget', scmService')[1].groups)]_vars

----------------------------------------------------------------------------
(* ScmWidget: the input box *)

\* the longest message typed
MaxMessageLen == 2
\* the most validator calls under way at a time
MaxValidations == 1

\* the characters of a message; the first two are white space
Characters == {" ", "\n", "a"}
WhiteSpace == {" ", "\n"}
Messages == SeqsUpTo(Characters, MaxMessageLen)

\* String.prototype.trim
RECURSIVE trimStart(_)
trimStart(message) ==
    IF message # <<>> /\ Head(message) \in WhiteSpace THEN trimStart(Tail(message)) ELSE message

RECURSIVE trimEnd(_)
trimEnd(message) ==
    IF message # <<>> /\ message[Len(message)] \in WhiteSpace
    THEN trimEnd(SubSeq(message, 1, Len(message) - 1))
    ELSE message

trim(message) == trimEnd(trimStart(message))

\* the results a validator gives: undefined or a warning
ValidationResults == {None, Some([type |-> "warning", message |-> "Too long"])}

\* the result executeInputCommand sets for a blank message
PleaseProvideAnInput == Some([type |-> "error", message |-> "Please provide an input"])

ACCEPT_INPUT == "scm.acceptInput"

\* executeInputCommand that tests the length of the message as typed
executeInputCommandUntrimmed(widget, commandId, repository, elementPresent) ==
    LET result == IF Len(widget.message) = 0 THEN PleaseProvideAnInput ELSE None
        checked == [widget EXCEPT !.inputCommandMessageValidationResult = result,
                                  !.executed = <<>>, !.thrown = None]
    IN IF result = None
       THEN LET run == [checked EXCEPT
                           !.executed = <<[commandId |-> commandId, repository |-> repository,
                                           message |-> widget.message]>>,
                           !.message = <<>>]
            IN IF elementPresent
               THEN [run EXCEPT !.updateRequested = TRUE]
               ELSE [run EXCEPT !.thrown = Some("TypeError")]
       ELSE IF elementPresent THEN [checked EXCEPT !.updateRequested = TRUE] ELSE checked

\* ScmWidget.executeInputCommand(commandId, repository) with resetInputMessages;
\* elementPresent tells whether document.getElementById finds the text area
executeInputCommand(widget, commandId, repository, elementPresent) ==
    LET result == IF Len(trim(widget.message)) = 0 THEN PleaseProvideAnInput ELSE None
        checked == [widget EXCEPT !.inputCommandMessageValidationResult = result,
                                  !.executed = <<>>, !.thrown = None]
    IN IF result = None
       THEN LET run == [checked EXCEPT
                           !.executed = <<[commandId |-> commandId, repository |-> repository,
                                           message |-> widget.message]>>,
                           !.message = <<>>]
            IN IF elementPresent
               THEN [run EXCEPT !.updateRequested = TRUE]
               ELSE [run EXCEPT !.thrown = Some("TypeError")]
       ELSE IF elementPresent THEN [checked EXCEPT !.updateRequested = TRUE] ELSE checked

\* onInputMessageChange: the message is stored and, with a validator, a validation
\* is started that will resolve to result
InputMessageChange(value, validator, result) ==
    /\ scmWidget.constructed
    /\ validator => Len(scmWidget.validating) < MaxValidations
    /\ scmWidget' = [scmWidget EXCEPT !.message = value,
                                      !.validating = IF validator THEN Append(@, result) ELSE @,
                                      !.executed = <<>>, !.thrown = None]
    /\ last' = [NoOp EXCEPT !.op = "onInputMessageChange", !.prev = last.op]
    /\ UNCHANGED <<scmService, scmContribution, dialogs, workspaceVariables, quickOpenAction>>
    /\ UNCHANGED gitVarsButLast

\* the then-callback of a validation
ValidatorResolves(i) ==
    /\ i \in DOMAIN scmWidget.validating
    /\ scmWidget' =
          [scmWidget EXCEPT
              !.validating = Splice(@, i),
              !.executed = <<>>, !.thrown = None,
              !.inputCommandMessageValidationResult = scmWidget.validating[i],
              !.updateRequested = @ \/ scmWidget.inputCommandMessageValidationResult
                                         # scmWidget.validating[i]]
    /\ last' = [NoOp EXCEPT !.op = "validated", !.prev = last.op]
    /\ UNCHANGED <<scmService, scmContribution, dialogs, workspaceVariables, quickOpenAction>>
    /\ UNCHANGED gitVarsButLast

\* the button of the accept-input command is clicked
ExecuteInputCommand(elementPresent) ==
    /\ scmWidget.constructed
    /\ scmWidget.rendered # None
    /\ scmWidget.rendered[1].repository # None
    /\ scmWidget' = executeInputCommand(scmWidget, ACCEPT_INPUT,
                                        scmWidget.rendered[1].repository[1], elementPresent)
    /\ last' = [NoOp EXCEPT !.op = "executeInputCommand", !.prev = last.op]
    /\ UNCHANGED <<scmService, scmContribution, dialogs, workspaceVariables, quickOpenAction>>
    /\ UNCHANGED gitVarsButLast

\* the widget shows the repository r1, its input box empty
InitInput ==
    /\ started = FALSE
    /\ allRepositories = <<>>
    /\ dirtyRepositories = <<>>
    /\ scmProviders = <<>>
    /\ scmRepositories = <<>>
    /\ hubs = <<>>
    /\ SCM_GROUP_ID = 0
    /\ stagedChanges = <<>>
    /\ mergeChanges = <<>>
    /\ inflight = <<>>
    /\ statusBar = {GIT_REPOSITORY_STATUS, GIT_SYNC_STATUS}
    /\ built = <<>>
    /\ opened = None
    /\ last = NoOp
    /\ events = 0
    /\ completed = <<>>
    /\ selectedRepository = None
    /\ commandLog = <<>>
    /\ scmService = [scmServiceNew EXCEPT !.repositories = <<ScmRepository("file:///r1")>>,
                                          !.selectedRepository = Some("file:///r1")]
    /\ scmWidget = [scmWidgetNew EXCEPT
                       !.constructed = TRUE,
                       !.selectedRepoUri = Some("file:///r1"),
                       !.rendered = Some([alert |-> FALSE, repository |-> Some("file:///r1"),
                                          groups |-> <<>>])]
    /\ scmContribution = scmContributionNew
    /\ dialogs = None
    /\ workspaceVariables = workspaceVariablesNew
    /\ quickOpenAction = quickOpenActionNew

NextInput ==
    \/ \E value \in Messages, validator \in BOOLEAN, result \in ValidationResults :
          InputMessageChange(value, validator, result)
    \/ \E i \in 1..MaxValidations : ValidatorResolves(i)
    \/ \E elementPresent \in BOOLEAN : ExecuteInputCommand(elementPresent)
    \/ WidgetRender

\* messages are typed, validated and accepted
SpecInput == InitInput /\ [][NextInput]_vars

\* every character of the message is white space
Blank(message) == \A i \in DOMAIN message : message[i] \in WhiteSpace

\* C27: executeInputCommand on a message that is empty or white space only sets the
\* error result, keeps the message and executes nothing; on any other message it
\* executes the command once, with the repository and the message, empties the
\* stored message and leaves no validation result
C27_BlankNeverExecuted ==
    [][last'.op = "executeInputCommand" =>
          IF Blank(scmWidget.message)
          THEN /\ scmWidget'.inputCommandMessageValidationResult = PleaseProvideAnInput
               /\ scmWidget'.message = scmWidget.message
               /\ scmWidget'.executed = <<>>
          ELSE /\ scmWidget'.executed =
                     <<[commandId |-> ACCEPT_INPUT, repository |-> "file:///r1",
                        message |-> scmWidget.message]>>
               /\ scmWidget'.message = <<>>
               /\ scmWidget'.inputCommandMessageValidationResult = None]_vars

\* a message of white space only was refused right after its validation had
\* resolved
C27_Witness ==
    /\ last.op = "executeInputCommand"
    /\ last.prev = "validated"
    /\ scmWidget.message = <<" ", "\n">>
    /\ scmWidget.executed = <<>>
    /\ scmWidget.inputCommandMessageValidationResult = PleaseProvideAnInput

----------------------------------------------------------------------------
(* ScmContribution: the status bar *)

\* the longest list of status-bar commands
MaxStatusBarCommands == 2

CHANGE_REPOSITORY == "scm.change.repository"

\* the commands a provider offers for the status bar
ScmCommands ==
    {[title |-> "master", command |-> "git.checkout"],
     [title |-> "sync", command |-> "git.sync"]}

\* labelProvider.getName(new URI(rootUri)): the base name of the root
getName(uri) == IF uri = "file:///r1" THEN "r1" ELSE "r2"

\* statusBar.setElement(id, entry) on the elements the contribution has set
setElement(entries, id, entry) ==
    {e \in entries : e.id # id} \cup {[id |-> id, text |-> entry.text, command |-> entry.command]}

\* statusBar.removeElement(id)
removeElement(entries, id) == {e \in entries : e.id # id}

\* ScmContribution.setStatusBarEntry
setStatusBarEntry(c, id, entry) ==
    [c EXCEPT !.entries = setElement(@, id, entry),
              !.statusBarDisposable = Append(@, id)]

\* DisposableCollection.dispose: every disposable pushed is disposed, the last first
RECURSIVE disposeAll(_, _)
disposeAll(entries, disposables) ==
    IF disposables = <<>> THEN entries
    ELSE disposeAll(removeElement(entries, disposables[Len(disposables)]),
                    SubSeq(disposables, 1, Len(disposables) - 1))

\* the forEach over scmService.statusBarCommands, from index k on
RECURSIVE setStatusEntries(_, _, _)
setStatusEntries(c, commands, k) ==
    IF k > Len(commands) THEN c
    ELSE setStatusEntries(
            setStatusBarEntry(c, "scm.status." \o ToString(k - 1),
                              [text |-> commands[k].title, command |-> commands[k].command]),
            commands, k + 1)

\* updateStatusBar that does not dispose what the update before it had set
updateStatusBarKeepsEntries(c, service) ==
    LET disposed == [c EXCEPT !.statusBarDisposable = <<>>, !.removed = {}]
    IN IF service.selectedRepository = None THEN disposed
       ELSE LET name == getName(service.selectedRepository[1])
                changeRepository ==
                   IF Len(service.repositories) > 1
                   THEN setStatusBarEntry(disposed, CHANGE_REPOSITORY,
                                          [text |-> "$(database) " \o name,
                                           command |-> CHANGE_REPOSITORY])
                   ELSE disposed
            IN setStatusEntries(changeRepository, service.statusBarCommands, 1)

\* ScmContribution.updateStatusBar
updateStatusBar(c, service) ==
    LET disposed == [c EXCEPT !.entries = disposeAll(@, c.statusBarDisposable),
                              !.statusBarDisposable = <<>>,
                              !.removed = Range(c.statusBarDisposable)]
    IN IF service.selectedRepository = None THEN disposed
       ELSE LET name == getName(service.selectedRepository[1])
                changeRepository ==
                   IF Len(service.repositories) > 1
                   THEN setStatusBarEntry(disposed, CHANGE_REPOSITORY,
                                          [text |-> "$(database) " \o name,
                                           command |-> CHANGE_REPOSITORY])
                   ELSE disposed
            IN setStatusEntries(changeRepository, service.statusBarCommands, 1)

\* a handler the contribution subscribed in onStart: it updates the status bar
onServiceChanged(c, service) == IF c.started THEN updateStatusBar(c, service) ELSE c

\* ScmContribution.onStart
ScmOnStart ==
    /\ ~scmContribution.started
    /\ scmContribution' = updateStatusBar([scmContribution EXCEPT !.started = TRUE], scmService)
    /\ last' = [NoOp EXCEPT !.op = "scmOnStart", !.prev = last.op]
    /\ UNCHANGED <<scmService, scmWidget, dialogs, workspaceVariables, quickOpenAction>>
    /\ UNCHANGED gitVarsButLast

\* the service adds a repository and fires onDidAddRepository
ScmAddRepository(uri) ==
    /\ findRepository(scmService.repositories, Some(uri)) = None
    /\ scmService' = [scmService EXCEPT !.repositories = Append(@, ScmRepository(uri))]
    /\ scmContribution' = onServiceChanged(scmContribution, scmService')
    /\ last' = [NoOp EXCEPT !.op = "onDidAddRepository", !.prev = last.op]
    /\ UNCHANGED <<scmWidget, dialogs, workspaceVariables, quickOpenAction>>
    /\ UNCHANGED gitVarsButLast

\* the service removes a repository that is not selected and fires
\* onDidRemoveRepository
ScmRemoveRepository(uri) ==
    /\ findRepository(scmService.repositories, Some(uri)) # None
    /\ scmService.selectedRepository # Some(uri)
    /\ scmService' = [scmService EXCEPT
                         !.repositories = SelectSeq(@, LAMBDA repo : repo.rootUri # uri)]
    /\ scmContribution' = onServiceChanged(scmContribution, scmService')
    /\ last' = [NoOp EXCEPT !.op = "onDidRemoveRepository", !.prev = last.op]
    /\ UNCHANGED <<scmWidget, dialogs, workspaceVariables, quickOpenAction>>
    /\ UNCHANGED gitVarsButLast

\* the service changes the selected repository, to a repository or to none, and
\* fires onDidChangeSelectedRepository
ScmSelectRepository(selected) ==
    /\ selected # None => findRepository(scmService.repositories, selected) # None
    /\ selected # scmService.selectedRepository
    /\ scmService' = [scmService EXCEPT !.selectedRepository = selected]
    /\ scmContribution' = onServiceChanged(scmContribution, scmService')
    /\ last' = [NoOp EXCEPT !.op = "onDidChangeSelectedRepository", !.prev = last.op]
    /\ UNCHANGED <<scmWidget, dialogs, workspaceVariables, quickOpenAction>>
    /\ UNCHANGED gitVarsButLast

\* the status-bar commands of the service change and onDidChangeStatusBarCommands
\* fires
ScmChangeStatusBarCommands(commands) ==
    /\ commands # scmService.statusBarCommands
    /\ scmService' = [scmService EXCEPT !.statusBarCommands = commands]
    /\ scmContribution' = onServiceChanged(scmContribution, scmService')
    /\ last' = [NoOp EXCEPT !.op = "onDidChangeStatusBarCommands", !.prev = last.op]
    /\ UNCHANGED <<scmWidget, dialogs, workspaceVariables, quickOpenAction>>
    /\ UNCHANGED gitVarsButLast

\* the label provider fires onDidChange
ScmLabelsChanged ==
    /\ scmContribution.started
    /\ scmContribution' = onServiceChanged(scmContribution, scmService)
    /\ last' = [NoOp EXCEPT !.op = "labelProvider.onDidChange", !.prev = last.op]
    /\ UNCHANGED <<scmService, scmWidget, dialogs, workspaceVariables, quickOpenAction>>
    /\ UNCHANGED gitVarsButLast

NextScmStatusBar ==
    \/ ScmOnStart
    \/ \E uri \in PanelUris : ScmAddRepository(uri)
    \/ \E uri \in PanelUris : ScmRemoveRepository(uri)
    \/ \E selected \in {None} \cup {Some(uri) : uri \in PanelUris} : ScmSelectRepository(selected)
    \/ \E commands \in DistinctSeqsUpTo(ScmCommands, MaxStatusBarCommands) :
          ScmChangeStatusBarCommands(commands)
    \/ ScmLabelsChanged

\* repositories come and go, the selection and the commands change, before and
\* after the contribution starts
SpecScmStatusBar == Constructed(<<>>) /\ [][NextScmStatusBar]_vars

\* the ids the status bar has to show for a state of the service
ExpectedIds(service) ==
    IF service.selectedRepository = None THEN {}
    ELSE (IF Len(service.repositories) > 1 THEN {CHANGE_REPOSITORY} ELSE {})
         \cup {"scm.status." \o ToString(index) :
                  index \in 0..(Len(service.statusBarCommands) - 1)}

\* C28: once started, the entries the contribution has in the status bar are those
\* of the current state of the service: none without a selected repository, else
\* the change-repository entry iff there are several repositories and one
\* 'scm.status.<index>' entry per command, with the title and command of that index
C28_EntriesMatchState ==
    scmContribution.started =>
        /\ {e.id : e \in scmContribution.entries} = ExpectedIds(scmService)
        /\ Cardinality(scmContribution.entries) = Cardinality(ExpectedIds(scmService))
        /\ \A index \in 0..(Len(scmService.statusBarCommands) - 1) :
              scmService.selectedRepository # None =>
                 \E e \in scmContribution.entries :
                    /\ e.id = "scm.status." \o ToString(index)
                    /\ e.text = scmService.statusBarCommands[index + 1].title
                    /\ e.command = scmService.statusBarCommands[index + 1].command

\* an update removed the change-repository entry and two status entries and set
\* one status entry
C28_Witness ==
    /\ scmContribution.started
    /\ Cardinality(scmContribution.removed) = 3
    /\ Cardinality(scmContribution.entries) = 1
    /\ scmService.selectedRepository # None

----------------------------------------------------------------------------
(* DialogsMainImpl *)

\* a FileStat
FileStat(uri) == [uri |-> uri, isDirectory |-> TRUE]

\* options.defaultUri: none, the empty string, a directory, a URI of nothing, and a
\* URI whose stat cannot be read
DefaultUris ==
    {None, Some(""), Some("file:///d"), Some("file:///missing"), Some("file:///denied")}

\* workspaceService.roots
WorkspaceRoots ==
    {<<>>, <<FileStat("file:///w1")>>, <<FileStat("file:///w1"), FileStat("file:///w2")>>}

\* fileSystem.getCurrentUserHome()
UserHomes == {None, Some(FileStat("file:///home"))}

\* fileSystem.getFileStat(uri): the stat, undefined, or a rejection
getFileStat(uri) ==
    IF uri = "file:///d" THEN [outcome |-> "resolved", value |-> Some(FileStat(uri))]
    ELSE IF uri = "file:///denied"
         THEN [outcome |-> "rejected", value |-> Some(Error("EACCES"))]
         ELSE [outcome |-> "resolved", value |-> None]

\* getRootUri that asks for the home before the workspace roots
getRootUriHomeFirst(defaultUri, roots, home) ==
    LET given == defaultUri # None /\ defaultUri # Some("")
        stat == IF given THEN getFileStat(defaultUri[1])
                ELSE [outcome |-> "resolved", value |-> None]
        asked == IF given THEN <<"getFileStat">> ELSE <<>>
    IN IF stat.outcome = "rejected"
       THEN [outcome |-> "rejected", value |-> stat.value, consulted |-> asked]
       ELSE IF stat.value # None
            THEN [outcome |-> "resolved", value |-> stat.value, consulted |-> asked]
            ELSE IF home # None
                 THEN [outcome |-> "resolved", value |-> home,
                       consulted |-> Append(asked, "getCurrentUserHome")]
                 ELSE [outcome |-> "resolved",
                       value |-> IF roots # <<>> THEN Some(roots[1]) ELSE None,
                       consulted |-> asked \o <<"getCurrentUserHome", "roots">>]

\* DialogsMainImpl.getRootUri(defaultUri): the promise it returns and the sources it
\* asked, in order
getRootUri(defaultUri, roots, home) ==
    LET given == defaultUri # None /\ defaultUri # Some("")
        stat == IF given THEN getFileStat(defaultUri[1])
                ELSE [outcome |-> "resolved", value |-> None]
        asked == IF given THEN <<"getFileStat">> ELSE <<>>
    IN IF stat.outcome = "rejected"
       THEN [outcome |-> "rejected", value |-> stat.value, consulted |-> asked]
       ELSE IF stat.value # None
            THEN [outcome |-> "resolved", value |-> stat.value, consulted |-> asked]
            ELSE IF roots # <<>>
                 THEN [outcome |-> "resolved", value |-> Some(roots[1]),
                       consulted |-> Append(asked, "roots")]
                 ELSE [outcome |-> "resolved", value |-> home,
                       consulted |-> asked \o <<"roots", "getCurrentUserHome">>]

\* where the dialog fails, if it does: the factory, navigateTo or open
DialogFailures == {"none", "factory", "navigateTo", "open"}

\* what the user picks in a dialog: nothing or a file
DialogResults == {None, Some("/d/a.txt")}

\* what a call did
DialogCall(op, defaultUri, roots, home, failure, result, root, outcome, value, created, upload) ==
    [op |-> op, defaultUri |-> defaultUri, roots |-> roots, home |-> home,
     failure |-> failure, result |-> result, root |-> root, outcome |-> outcome,
     value |-> value, dialogCreated |-> created, uploadStarted |-> upload]

\* the body of $showOpenDialog and $showSaveDialog with no catch
showDialogRethrows(op, defaultUri, roots, home, failure, result) ==
    LET root == getRootUri(defaultUri, roots, home)
    IN IF root.outcome = "rejected"
       THEN DialogCall(op, defaultUri, roots, home, failure, result, root,
                       "rejected", root.value, FALSE, FALSE)
       ELSE IF root.value = None
            THEN DialogCall(op, defaultUri, roots, home, failure, result, root, "rejected",
                            Some(Error("Unable to find the rootStat")), FALSE, FALSE)
            ELSE IF failure # "none"
                 THEN DialogCall(op, defaultUri, roots, home, failure, result, root,
                                 "rejected", Some(Error(failure)), failure # "factory", FALSE)
                 ELSE DialogCall(op, defaultUri, roots, home, failure, result, root,
                                 "resolved",
                                 IF op = "showOpenDialog"
                                 THEN Some(IF result = None THEN <<>> ELSE <<result[1]>>)
                                 ELSE result,
                                 TRUE, FALSE)

\* $showOpenDialog and $showSaveDialog: the root, then the dialog inside try/catch;
\* the open dialog resolves to the paths of UriSelection.getUris(result), the save
\* dialog to the path of the result, if any
showDialog(op, defaultUri, roots, home, failure, result) ==
    LET root == getRootUri(defaultUri, roots, home)
    IN IF root.outcome = "rejected"
       THEN DialogCall(op, defaultUri, roots, home, failure, result, root,
                       "rejected", root.value, FALSE, FALSE)
       ELSE IF root.value = None
            THEN DialogCall(op, defaultUri, roots, home, failure, result, root, "rejected",
                            Some(Error("Unable to find the rootStat")), FALSE, FALSE)
            ELSE IF failure # "none"
                 THEN DialogCall(op, defaultUri, roots, home, failure, result, root,
                                 "resolved", None, failure # "factory", FALSE)
                 ELSE DialogCall(op, defaultUri, roots, home, failure, result, root,
                                 "resolved",
                                 IF op = "showOpenDialog"
                                 THEN Some(IF result = None THEN <<>> ELSE <<result[1]>>)
                                 ELSE result,
                                 TRUE, FALSE)

\* $showUploadDialog: the root, then the upload, which may fail
showUploadDialog(defaultUri, roots, home, failure, result) ==
    LET root == getRootUri(defaultUri, roots, home)
        op == "showUploadDialog"
    IN IF root.outcome = "rejected"
       THEN DialogCall(op, defaultUri, roots, home, failure, result, root,
                       "rejected", root.value, FALSE, FALSE)
       ELSE IF root.value = None
            THEN DialogCall(op, defaultUri, roots, home, failure, result, root, "rejected",
                            Some(Error("Failed to resolve base directory where files should be uploaded")),
                            FALSE, FALSE)
            ELSE IF failure # "none"
                 THEN DialogCall(op, defaultUri, roots, home, failure, result, root,
                                 "rejected", Some(Error(failure)), FALSE, TRUE)
                 ELSE DialogCall(op, defaultUri, roots, home, failure, result, root,
                                 "resolved",
                                 IF result = None THEN None ELSE Some(<<result[1]>>),
                                 FALSE, TRUE)

ShowOpenDialog(defaultUri, roots, home, failure, result) ==
    /\ dialogs' = Some(showDialog("showOpenDialog", defaultUri, roots, home, failure, result))
    /\ UNCHANGED <<scmService, scmWidget, scmContribution, workspaceVariables, quickOpenAction>>
    /\ UNCHANGED <<gitVarsButLast, last>>

ShowSaveDialog(defaultUri, roots, home, failure, result) ==
    /\ dialogs' = Some(showDialog("showSaveDialog", defaultUri, roots, home, failure, result))
    /\ UNCHANGED <<scmService, scmWidget, scmContribution, workspaceVariables, quickOpenAction>>
    /\ UNCHANGED <<gitVarsButLast, last>>

ShowUploadDialog(defaultUri, roots, home, failure, result) ==
    /\ dialogs' = Some(showUploadDialog(defaultUri, roots, home, failure, result))
    /\ UNCHANGED <<scmService, scmWidget, scmContribution, workspaceVariables, quickOpenAction>>
    /\ UNCHANGED <<gitVarsButLast, last>>

NextDialogs ==
    \E defaultUri \in DefaultUris, roots \in WorkspaceRoots, home \in UserHomes,
       result \in DialogResults :
       \/ \E failure \in DialogFailures :
             ShowOpenDialog(defaultUri, roots, home, failure, result)
       \/ \E failure \in DialogFailures :
             ShowSaveDialog(defaultUri, roots, home, failure, result)
       \/ \E failure \in {"none", "upload"} :
             ShowUploadDialog(defaultUri, roots, home, failure, result)

\* the three dialogs are asked for with every default URI, workspace and home
SpecDialogs == Constructed(<<>>) /\ [][NextDialogs]_vars

\* the default URI of the call is that of something that has a stat
HasStat(defaultUri) == defaultUri = Some("file:///d")

\* C23: when getRootUri returns, it returns the stat of the default URI if that has
\* one, asking nothing else; else the first workspace root if there is one, without
\* asking for the home; else the home; undefined only when all three are missing
C23_RootPriority ==
    (dialogs # None /\ dialogs[1].root.outcome = "resolved") =>
        LET call == dialogs[1]
            root == call.root
        IN /\ HasStat(call.defaultUri) =>
                 /\ root.value = Some(FileStat(call.defaultUri[1]))
                 /\ root.consulted = <<"getFileStat">>
           /\ (~HasStat(call.defaultUri) /\ call.roots # <<>>) =>
                 /\ root.value = Some(call.roots[1])
                 /\ \A i \in DOMAIN root.consulted : root.consulted[i] # "getCurrentUserHome"
           /\ (~HasStat(call.defaultUri) /\ call.roots = <<>>) => root.value = call.home
           /\ root.value = None =>
                 (~HasStat(call.defaultUri) /\ call.roots = <<>> /\ call.home = None)

\* the default URI has no stat, there is no workspace root, and the home was taken
C23_Witness ==
    /\ dialogs # None
    /\ dialogs[1].defaultUri = Some("file:///missing")
    /\ dialogs[1].roots = <<>>
    /\ dialogs[1].root.value = Some(FileStat("file:///home"))
    /\ dialogs[1].root.consulted = <<"getFileStat", "roots", "getCurrentUserHome">>

\* C24: a call that finds no root rejects with an error, no dialog created and no
\* upload started; an open or save call that found a root resolves, and to
\* undefined when the dialog failed
C24_NoRootRejectsDialogErrorsCaught ==
    dialogs # None =>
        LET call == dialogs[1]
        IN /\ (call.root.outcome = "resolved" /\ call.root.value = None) =>
                 /\ call.outcome = "rejected"
                 /\ call.value # None
                 /\ call.value[1].isError
                 /\ ~call.dialogCreated
                 /\ ~call.uploadStarted
           /\ (call.root.outcome = "resolved" /\ call.root.value # None
                 /\ call.op \in {"showOpenDialog", "showSaveDialog"}) =>
                 /\ call.outcome = "resolved"
                 /\ call.failure # "none" => call.value = None

\* the save dialog was created for a workspace root and failed when it was opened
C24_Witness ==
    /\ dialogs # None
    /\ dialogs[1].op = "showSaveDialog"
    /\ dialogs[1].root.value = Some(FileStat("file:///w1"))
    /\ dialogs[1].failure = "open"
    /\ dialogs[1].dialogCreated
    /\ dialogs[1].outcome = "resolved"
    /\ dialogs[1].value = None

----------------------------------------------------------------------------
(* WorkspaceVariableContribution: the current widget *)

\* the number of widgets of the shell
MaxWidgets == 4

Widgets == 1..MaxWidgets

\* NavigatableWidget.is(widget): the widgets with an odd number are navigatable
NavigatableWidgetIs(widget) == widget # None /\ widget[1] % 2 = 1

\* signal.disconnect(slot): the first connection of the slot to the widget goes
disconnect(connected, widget) ==
    LET hits == {i \in DOMAIN connected : connected[i] = widget}
    IN IF hits = {} THEN connected
       ELSE Splice(connected, CHOOSE i \in hits : \A j \in hits : i <= j)

\* toDiposeOnUpdateCurrentWidget.dispose()
RECURSIVE disconnectAll(_, _)
disconnectAll(connected, toDispose) ==
    IF toDispose = <<>> THEN connected
    ELSE disconnectAll(disconnect(connected, toDispose[Len(toDispose)]),
                       SubSeq(toDispose, 1, Len(toDispose) - 1))

\* setCurrentWidget that leaves the listener of the widget tracked before connected
setCurrentWidgetKeepsListener(w, currentWidget) ==
    LET reset == [w EXCEPT !.toDispose = <<>>, !.currentWidget = currentWidget]
    IN IF currentWidget # None
       THEN [reset EXCEPT !.connected = Append(@, currentWidget[1]),
                          !.toDispose = Append(@, currentWidget[1])]
       ELSE reset

\* WorkspaceVariableContribution.setCurrentWidget(currentWidget)
setCurrentWidget(w, currentWidget) ==
    LET reset == [w EXCEPT !.connected = disconnectAll(@, w.toDispose),
                           !.toDispose = <<>>,
                           !.currentWidget = currentWidget]
    IN IF currentWidget # None
       THEN [reset EXCEPT !.connected = Append(@, currentWidget[1]),
                          !.toDispose = Append(@, currentWidget[1])]
       ELSE reset

\* WorkspaceVariableContribution.updateCurrentWidget
updateCurrentWidget(w) ==
    IF NavigatableWidgetIs(w.shellCurrent) THEN setCurrentWidget(w, w.shellCurrent) ELSE w

\* init: the current widget of the shell is taken and currentChanged is connected
WorkspaceVariablesInit ==
    /\ ~workspaceVariables.initialized
    /\ workspaceVariables' =
          [updateCurrentWidget(workspaceVariables) EXCEPT !.initialized = TRUE, !.op = "init"]
    /\ UNCHANGED <<scmService, scmWidget, scmContribution, dialogs, quickOpenAction>>
    /\ UNCHANGED <<gitVarsButLast, last>>

\* another widget, or none, becomes the current widget of the shell, which emits
\* currentChanged
ShellCurrentChanged(widget) ==
    /\ widget # workspaceVariables.shellCurrent
    /\ widget # None => widget[1] \notin workspaceVariables.disposed
    /\ LET changed == [workspaceVariables EXCEPT
                          !.shellCurrent = widget,
                          !.lastNavigatable = IF NavigatableWidgetIs(widget) THEN widget ELSE @,
                          !.op = "currentChanged"]
       IN workspaceVariables' =
             IF workspaceVariables.initialized THEN updateCurrentWidget(changed) ELSE changed
    /\ UNCHANGED <<scmService, scmWidget, scmContribution, dialogs, quickOpenAction>>
    /\ UNCHANGED <<gitVarsButLast, last>>

\* a widget is disposed: it stops being the current widget of the shell, its disposed
\* signal runs the slots connected to it and drops its connections
WidgetDisposed(widget) ==
    /\ widget \notin workspaceVariables.disposed
    /\ LET gone == [workspaceVariables EXCEPT
                       !.disposed = @ \cup {widget},
                       !.shellCurrent = IF @ = Some(widget) THEN None ELSE @,
                       !.op = "disposed"]
           emitted == IF widget \in Range(gone.connected)
                      THEN setCurrentWidget(gone, None)
                      ELSE gone
       IN workspaceVariables' =
             [emitted EXCEPT !.connected = SelectSeq(@, LAMBDA c : c # widget)]
    /\ UNCHANGED <<scmService, scmWidget, scmContribution, dialogs, quickOpenAction>>
    /\ UNCHANGED <<gitVarsButLast, last>>

NextWorkspaceVariables ==
    \/ WorkspaceVariablesInit
    \/ \E widget \in {None} \cup {Some(w) : w \in Widgets} : ShellCurrentChanged(widget)
    \/ \E widget \in Widgets : WidgetDisposed(widget)

\* widgets become current and are disposed, before and after init
SpecWorkspaceVariables == Constructed(<<>>) /\ [][NextWorkspaceVariables]_vars

\* C29: after every step of the initialized contribution currentWidget is undefined
\* or the navigatable widget that became current last, not disposed, and the slots
\* connected are none, or one on the tracked widget; a non-navigatable widget
\* becoming current leaves currentWidget as it was, and the disposal of the tracked
\* widget makes it undefined
C29_TracksLastNavigatable ==
    [][LET w == workspaceVariables
           n == workspaceVariables'
       IN /\ n.initialized =>
                /\ \/ n.currentWidget = None
                   \/ /\ n.currentWidget = n.lastNavigatable
                      /\ NavigatableWidgetIs(n.currentWidget)
                      /\ n.currentWidget[1] \notin n.disposed
                /\ n.connected = n.currentWidget
          /\ (w.initialized /\ n.op = "currentChanged" /\ ~NavigatableWidgetIs(n.shellCurrent)) =>
                n.currentWidget = w.currentWidget
          /\ (w.initialized /\ n.op = "disposed" /\ w.currentWidget # None
                /\ w.currentWidget[1] \in n.disposed) =>
                n.currentWidget = None]_vars

\* widget 3, navigatable and the last to become current, was disposed, which reset
\* currentWidget and left no slot connected
C29_Witness ==
    /\ workspaceVariables.initialized
    /\ workspaceVariables.op = "disposed"
    /\ workspaceVariables.currentWidget = None
    /\ workspaceVariables.lastNavigatable = Some(3)
    /\ workspaceVariables.disposed = {3}
    /\ workspaceVariables.connected = <<>>

----------------------------------------------------------------------------
(* QuickOpenBaseAction: the accessors *)

\* the values assigned: strings, undefined for the class, booleans
StringValues == {Some(""), Some("Run")}
ClassValues == {None, Some(""), Some("fa fa-play")}
BooleanValues == {Some(TRUE), Some(FALSE)}

\* the field each getter returns
QuickOpenFields ==
    [label |-> "actionLabel", tooltip |-> "actionTooltip", class |-> "actionCssClass",
     enabled |-> "actionEnabled", checked |-> "actionChecked", radio |-> "actionRadio"]

\* get label(), get tooltip(), ...
get(action, property) == action[QuickOpenFields[property]]

\* a setter: it assigns the field of the property; the setter of tooltip assigns
\* this.tooltip, which calls the setter again, until the stack is exhausted and a
\* RangeError is thrown, no field assigned
set(action, property, value) ==
    LET assigned ==
           IF property = "tooltip"
           THEN [action EXCEPT !.outcome = "RangeError"]
           ELSE [action EXCEPT ![QuickOpenFields[property]] = value, !.outcome = "returned"]
    IN [assigned EXCEPT !.op = property, !.value = value, !.read = get(assigned, property)]

SetLabel(value) ==
    /\ quickOpenAction' = set(quickOpenAction, "label", value)
    /\ UNCHANGED <<scmService, scmWidget, scmContribution, dialogs, workspaceVariables>>
    /\ UNCHANGED <<gitVarsButLast, last>>

SetTooltip(value) ==
    /\ quickOpenAction' = set(quickOpenAction, "tooltip", value)
    /\ UNCHANGED <<scmService, scmWidget, scmContribution, dialogs, workspaceVariables>>
    /\ UNCHANGED <<gitVarsButLast, last>>

SetClass(value) ==
    /\ quickOpenAction' = set(quickOpenAction, "class", value)
    /\ UNCHANGED <<scmService, scmWidget, scmContribution, dialogs, workspaceVariables>>
    /\ UNCHANGED <<gitVarsButLast, last>>

SetEnabled(value) ==
    /\ quickOpenAction' = set(quickOpenAction, "enabled", value)
    /\ UNCHANGED <<scmService, scmWidget, scmContribution, dialogs, workspaceVariables>>
    /\ UNCHANGED <<gitVarsButLast, last>>

SetChecked(value) ==
    /\ quickOpenAction' = set(quickOpenAction, "checked", value)
    /\ UNCHANGED <<scmService, scmWidget, scmContribution, dialogs, workspaceVariables>>
    /\ UNCHANGED <<gitVarsButLast, last>>

SetRadio(value) ==
    /\ quickOpenAction' = set(quickOpenAction, "radio", value)
    /\ UNCHANGED <<scmService, scmWidget, scmContribution, dialogs, workspaceVariables>>
    /\ UNCHANGED <<gitVarsButLast, last>>

NextQuickOpenAction ==
    \/ \E value \in StringValues : SetLabel(value)
    \/ \E value \in StringValues : SetTooltip(value)
    \/ \E value \in ClassValues : SetClass(value)
    \/ \E value \in BooleanValues : SetEnabled(value)
    \/ \E value \in BooleanValues : SetChecked(value)
    \/ \E value \in BooleanValues : SetRadio(value)

\* the properties of an action are assigned in every order
SpecQuickOpenAction == Constructed(<<>>) /\ [][NextQuickOpenAction]_vars

\* C30: every assignment through a setter returns, the getter of the property then
\* returns the value assigned, and the id and the fields of the other properties
\* are as before
C30_SetThenGet ==
    [][/\ quickOpenAction'.outcome = "returned"
       /\ quickOpenAction'.read = quickOpenAction'.value
       /\ quickOpenAction'.actionId = quickOpenAction.actionId
       /\ \A property \in DOMAIN QuickOpenFields :
             property # quickOpenAction'.op =>
                get(quickOpenAction', property) = get(quickOpenAction, property)]_vars

====
